---- MODULE Spec2Model ----
(***************************************************************************)
(* gcalbot: a Telegram bot that manages Google Calendar sharing.           *)
(*                                                                         *)
(* The model covers the two processes of main.py:                          *)
(*   - the web process (engine/fastapi/web.py), whose oauth2callback puts  *)
(*     outcome dicts on the multiprocessing Queue;                         *)
(*   - the Telegram process (engine/tg/tg_handlers.py): the update         *)
(*     handlers of the ConversationHandler and the direct commands, the    *)
(*     webauth_callback thread draining the Queue, and the main thread     *)
(*     sitting in CustomUpdater.idle() until a signal arrives.             *)
(*                                                                         *)
(* Strings whose structure matters (handler names, button payloads,        *)
(* calendar names, e-mails, message texts) are sequences of tokens, so     *)
(* that prefix matching (re.match), str.split and str.format are computed. *)
(* Update handlers run one at a time (one action each); the                *)
(* webauth_callback thread runs concurrently with them and is modelled     *)
(* step by step at its accesses to shared state.                           *)
(***************************************************************************)
EXTENDS Integers, Sequences, FiniteSets, TLC

\* ------------------------------------------------------------------
\* Bounds of the model
\* ------------------------------------------------------------------
\* Requests served by oauth2callback that put a message on the queue.
MaxSent == 2
\* Termination signals delivered to the Telegram process.
MaxSignals == 2
\* messages of another shape put on ipc_queue
MaxForeign == 1
\* Authorization links issued by start.
MaxLinks == 2

\* Telegram chat ids (private chats: one user per chat); 0 is "no chat".
Chats == {1, 2}
NoChat == 0
\* OAuth2 state strings returned by Flow.authorization_url.
Tokens == {"t1", "t2"}
\* Token refreshes one credential goes through (str_to_credentials).
MaxRefresh == 1
\* Credential JSON strings: the grant they come from and the number of
\* refreshes applied to them.
Grants == {"b1", "b2"}
Blob(g) == [grant |-> g, gen |-> 0]
Blobs == {Blob(g) : g \in Grants}
\* No row for the chat in table GCalendarCred, no "credentials" key in a dict.
NoCred == [grant |-> "none", gen |-> 0]
\* Keyboard messages a chat is sent (reply_text in start).
MaxKeyboards == 2
\* Callback queries of a chat that wait in the update queue.
MaxPending == 2
\* Telegram message ids of the typed /start commands that open a keyboard;
\* the bot's reply, the keyboard message, gets the next id.  Ids grow with
\* every message of the chat.  0 is "key absent" in chat_data.
MsgIds == {2 * k - 1 : k \in 1..MaxKeyboards}
\* The processes and threads that put on ipc_queue: the web process, the
\* Telegram process (signal handler) and any other holder of the queue.
Producers == {"web", "tg", "other"}
\* What str_to_credentials meets: a token still valid, an expired token that
\* is refreshed, an expired token whose refresh raises (RefreshError).
Refreshes == {"valid", "refreshed", "RefreshError"}
\* Calendar ids returned by gcal.get_calendars, in list order.
CalendarList == << <<"cal1">> >>
\* Texts a user may type while an e-mail is awaited: an address, an address
\* whose local part holds the delimiter character, and a text that is none.
Texts == { <<"u", "@", "d">>, <<"u", "#", "v", "@", "d">>, <<"bad">> }

\* ------------------------------------------------------------------
\* Program constants
\* ------------------------------------------------------------------
STATE_CALENDAR_SELECTION == "SelectCalendar"
STATE_ACTION_SELECTION == "SelectAction"
STATE_ADD_SHARE == "AwaitShareEmail"
STATE_ADD_SHARE_ROLE == "AwaitShareRole"
STATE_DELETE_SHARE == "AwaitDeleteEmail"
STATE_END == "Terminal"
ActiveStates == {STATE_CALENDAR_SELECTION, STATE_ACTION_SELECTION, STATE_ADD_SHARE,
                 STATE_ADD_SHARE_ROLE, STATE_DELETE_SHARE}

CALLBACK_DELIMITER == "#"

FREE_BUSY_READER == "freeBusyReader"
READER == "reader"
WRITER == "writer"

\* function.__name__ of the callback handlers
N_start == <<"start">>
N_finish_conversation == <<"finish_conversation">>
N_select_calendar_inline == <<"select_calendar_inline">>
N_revoke_authz_inline == <<"revoke_authz_inline">>
N_show_share_inline == <<"show_share_inline">>
N_add_share_inline == <<"add_share_inline">>
N_delete_share_inline == <<"delete_share_inline">>
N_add_share_inline_freebusy == <<"add_share_inline", "_freebusy">>
N_add_share_inline_reader == <<"add_share_inline", "_reader">>
N_add_share_inline_writer == <<"add_share_inline", "_writer">>

\* ------------------------------------------------------------------
\* String helpers
\* ------------------------------------------------------------------
\* f"{name}{CALLBACK_DELIMITER}{arg}"
Payload(name, arg) == name \o <<CALLBACK_DELIMITER>> \o arg

\* re.match("^" + name, data): data starts with name
MatchPrefix(name, data) ==
    /\ Len(name) <= Len(data)
    /\ SubSeq(data, 1, Len(name)) = name

\* re.match("^" + name + "$", data)
MatchExact(name, data) == data = name

\* data.split(CALLBACK_DELIMITER): the list of parts
RECURSIVE Split(_)
Split(s) ==
    IF \A i \in 1..Len(s) : s[i] # CALLBACK_DELIMITER
    THEN <<s>>
    ELSE LET k == CHOOSE i \in 1..Len(s) :
                     /\ s[i] = CALLBACK_DELIMITER
                     /\ \A j \in 1..(i - 1) : s[j] # CALLBACK_DELIMITER
         IN <<SubSeq(s, 1, k - 1)>> \o Split(SubSeq(s, k + 1, Len(s)))

\* validate_email(email, check_format=True, ...): local@domain, one "@"
validate_email(s) ==
    /\ Cardinality({i \in 1..Len(s) : s[i] = "@"}) = 1
    /\ s[1] # "@"
    /\ s[Len(s)] # "@"

Calendars == {CalendarList[i] : i \in 1..Len(CalendarList)}
Emails == {t \in Texts : validate_email(t)}
\* Arguments a keyboard can embed behind the delimiter.
Args == Calendars \cup Emails

\* ------------------------------------------------------------------
\* Message texts (tg_messages.py), str.format as concatenation
\* ------------------------------------------------------------------
TG_HELP == <<"TG_HELP">>
TG_KEYBOARD_ACTIVE == <<"TG_KEYBOARD_ACTIVE">>
TG_INVALID_ARG_NUM(num) == <<"TG_INVALID_ARG_NUM", ToString(num)>>
TG_CALENDAR_NOT_FOUND == <<"TG_CALENDAR_NOT_FOUND", "details">>
TG_EMAIL_INVALID == <<"TG_EMAIL_INVALID">>
TG_ROLE_INVALID == <<"TG_ROLE_INVALID", FREE_BUSY_READER, READER, WRITER>>
\* GCAL_MAP: the roles a command may grant (its keys) and the word shown for
\* each
GCAL_MAP ==
    [role \in {FREE_BUSY_READER, READER, WRITER} |->
        IF role = FREE_BUSY_READER THEN "busy/free only"
        ELSE IF role = READER THEN "read" ELSE "write"]
GCAL_ENTRY(email, access) == email \o <<": ", access>>
\* How a function of gcal_handlers.py ends: it returns ("") or the request
\* raises HttpError.
GwOutcomes == {"", "HttpError"}
\* get_acl_users (line 81) and delete_acl_user (line 96) read
\* user["scope"]["value"] of the rules the provider lists: a rule whose scope
\* has no value (scope type "default") raises KeyError.
AclOutcomes == {"", "HttpError", "KeyError"}
\* What get_acl_users returns: the rules of the calendar's ACL other than the
\* owner's, in list order.  No rule but the owner's, one rule, the same with
\* a second rule added, a rule whose role ("none") is no key of GCAL_MAP.
Acls ==
    { <<>>,
      << [name |-> <<"a", "@", "x">>, role |-> READER] >>,
      << [name |-> <<"a", "@", "x">>, role |-> READER],
         [name |-> <<"b", "@", "x">>, role |-> WRITER] >>,
      << [name |-> <<"a", "@", "x">>, role |-> "none"] >> }
TG_AUTHZ_URL(url) == <<"TG_AUTHZ_URL", url>>
TG_AUTH_COMPLETE == <<"TG_AUTH_COMPLETE">>
TG_AUTH_FAILED == <<"TG_AUTH_FAILED">>
TG_REVOKE_AUTHZ == <<"TG_REVOKE_AUTHZ">>
TG_USER_ADDED(email, access_type, calendar) ==
    <<"TG_USER_ADDED">> \o email \o <<"'", access_type, "'">> \o calendar
TG_USER_DELETED(email, calendar) == <<"TG_USER_DELETED">> \o email \o <<"/">> \o calendar
PROMPT_INITIAL_MENU == <<"PROMPT_INITIAL_MENU">>
PROMPT_SHARE_EMAIL(calendar) == <<"PROMPT_SHARE_EMAIL">> \o calendar
PROMPT_NOT_EMAIL == <<"PROMPT_NOT_EMAIL">>
PROMPT_DELETE_EMAIL(calendar) == <<"PROMPT_DELETE_EMAIL">> \o calendar
PROMPT_CHOOSE_ACTION(calendar) == <<"PROMPT_CHOOSE_ACTION">> \o calendar
PROMPT_CHOOSE_ROLE(email, calendar) == <<"PROMPT_CHOOSE_ROLE">> \o email \o <<"/">> \o calendar
\* line 275 raises KeyError for a rule whose role is no key of GCAL_MAP
UnknownRole(users_list) ==
    \E i \in 1..Len(users_list) : users_list[i].role \notin DOMAIN GCAL_MAP
\* text returned by __show_share (lines 271-279) for the rules get_acl_users
\* returned: one line per rule, e-mail and access word, so the empty string
\* when there is none; the calendar is not named.
RECURSIVE ACL_LISTING(_)
ACL_LISTING(users_list) ==
    IF users_list = <<>>
    THEN <<>>
    ELSE GCAL_ENTRY(Head(users_list).name, GCAL_MAP[Head(users_list).role])
         \o <<"linesep">> \o ACL_LISTING(Tail(users_list))
\* text returned by __show_calendars: one line per calendar
RECURSIVE CalendarLines(_)
CalendarLines(cals) ==
    IF cals = <<>> THEN <<>> ELSE Head(cals) \o <<"linesep">> \o CalendarLines(Tail(cals))

\* ------------------------------------------------------------------
\* Inline keyboards: the callback_data of their buttons, in order
\* ------------------------------------------------------------------
default_keyboard(calendar) ==
    << Payload(N_select_calendar_inline, calendar), N_start, N_finish_conversation >>

calendar_keyboard(calendar) ==
    << Payload(N_show_share_inline, calendar),
       Payload(N_add_share_inline, calendar),
       Payload(N_delete_share_inline, calendar),
       N_start, N_finish_conversation >>

add_share_keyboard(calendar, username) ==
    << Payload(N_add_share_inline_freebusy, username),
       Payload(N_add_share_inline_reader, username),
       Payload(N_add_share_inline_writer, username),
       Payload(N_select_calendar_inline, calendar),
       N_start, N_finish_conversation >>

\* keyboard built by start from the calendar list
initial_keyboard ==
    [i \in 1..Len(CalendarList) |-> Payload(N_select_calendar_inline, CalendarList[i])]
        \o << N_revoke_authz_inline, N_finish_conversation >>

\* ------------------------------------------------------------------
\* State
\* ------------------------------------------------------------------
VARIABLES
    creds,      \* table GCalendarCred: chat id -> credentials (NoCred: no row)
    bot_data,   \* dispatcher.bot_data: OAuth2 state -> chat id (NoChat: no key)
    queue,      \* ipc_queue: per producer, the messages put and not yet got
    dpc,        \* webauth_callback thread: position in its loop
    cur,        \* webauth_callback: ipc_data being handled
    dchat,      \* webauth_callback: chat_id popped from bot_data
    mpc,        \* main thread of start_bot: idle / wait / join / exited
    running,    \* Updater.running: updates are being dispatched
    event,      \* CustomUpdater.event is set
    spc,        \* _signal_handler: the statement it is at ("none": not running)
    hpc,        \* dispatcher thread: the start handler it is in the middle of
    inbox,      \* callback queries of each chat received and not yet handled
    conv,       \* ConversationHandler state of each chat
    chat_data,  \* context.chat_data of each chat
    prompt,     \* the chat's keyboard messages, in the order they were sent
    sent,       \* history: every message ever put on ipc_queue, in put order
    processed,  \* history: every message webauth_callback got, in get order
    sigs,       \* history: signals delivered
    links,      \* history: authorization links issued
    hist,       \* history: per OAuth2 state, registrations and lookup outcomes
    last        \* history: the operation that ran last, with the calls it made

vars == << creds, bot_data, queue, dpc, cur, dchat, mpc, running, event, spc, hpc,
           inbox, conv, chat_data, prompt, sent, processed, sigs, links, hist, last >>

handoffVars == << queue, dpc, cur, dchat, sent, processed >>
lifeVars == << mpc, running, event, spc, sigs >>
sessionVars == << hpc, inbox, conv, chat_data, prompt >>

\* ipc_queue messages
Shutdown == [type |-> "bool", state |-> "", credentials |-> NoCred]
Granted(t, b) == [type |-> "dict", state |-> t, credentials |-> b]
Denied(t) == [type |-> "dict", state |-> t, credentials |-> NoCred]
\* objects of another shape: one that is neither bool nor dict, and a dict
\* without the key STATE_KEY (state "")
Unknown == [type |-> "str", state |-> "", credentials |-> NoCred]
NoState == [type |-> "dict", state |-> "", credentials |-> NoCred]
ForeignMessages == {Unknown, NoState}

\* chat_data: a key that is absent holds 0 (message ids) or <<>> (calendar)
NoName == <<>>
EmptyData == [initial_msg |-> 0, inline_msg |-> 0, calendar_name |-> NoName]
\* a keyboard message: text and reply_markup; NoPrompt once it is deleted
NoPrompt == [text |-> <<>>, kb |-> <<>>, exists |-> FALSE]
Shown(text, kb) == [text |-> text, kb |-> kb, exists |-> TRUE]
\* The k-th keyboard message of a chat has id 2k.  The message with this id,
\* NoPrompt when there is none.
Message(c, id) ==
    IF id > 0 /\ id % 2 = 0 /\ id \div 2 <= Len(prompt[c])
    THEN prompt[c][id \div 2]
    ELSE NoPrompt
\* the chat's messages after message id got this content
Edited(c, id, content) ==
    IF id > 0 /\ id % 2 = 0 /\ id \div 2 <= Len(prompt[c])
    THEN [prompt[c] EXCEPT ![id \div 2] = content]
    ELSE prompt[c]
\* no update handler is in progress
NoHandler == [chat |-> NoChat, via |-> "", msg |-> 0, pos |-> "", state |-> ""]
\* a callback query: the message whose button was pressed and its callback_data
Query(id, data) == [msg |-> id, data |-> data]
\* a text message that is no command (message ids of keyboards are not 0)
Typed(text) == [msg |-> 0, data |-> text]

\* calls an operation made: Telegram Bot API and Calendar Gateway
Tg(m, c, text, ref) == [m |-> m, chat |-> c, text |-> text, ref |-> ref]
Gw(fn, calendar, username, access_type) ==
    [fn |-> fn, calendar |-> calendar, username |-> username, access_type |-> access_type,
     raised |-> FALSE, exc |-> ""]
\* the call as the handler saw it end: it returned (exc "") or raised exc
Ended(call, exc) == IF exc = "" THEN call ELSE [call EXCEPT !.raised = TRUE, !.exc = exc]
\* the Gateway call that raised HttpError, the error of the provider
Failed(call) == Ended(call, "HttpError")
Called(call, gwOk) == IF gwOk THEN call ELSE Failed(call)
\* The record of an operation: the handler, how it was invoked, the chat, the
\* callback data or text of the update, whether it returned (ok) or raised,
\* and the Gateway and Telegram calls it completed.
\* exc names the exception that ended the handler ("" when it returned).
EvA(op, via, c, arg, ok, gw, tg) ==
    [op |-> op, via |-> via, chat |-> c, arg |-> arg, ok |-> ok, gw |-> gw, tg |-> tg,
     exc |-> IF ok THEN "" ELSE "Exception"]
\* The record of a direct command: its context.args and the class of the
\* exception that ended it.
EvC(op, c, args, exc, gw, tg) ==
    [op |-> op, via |-> "command", chat |-> c, arg |-> args, ok |-> exc = "", gw |-> gw,
     tg |-> tg, exc |-> exc]
Ev(op, via, c, ok, gw, tg) == EvA(op, via, c, <<>>, ok, gw, tg)
\* The record of an update handler: exc is the class of the exception that
\* ended it, "" when it returned.
EvX(op, via, c, arg, exc, gw, tg) ==
    [op |-> op, via |-> via, chat |-> c, arg |-> arg, ok |-> exc = "", gw |-> gw,
     tg |-> tg, exc |-> exc]

\* by: the chats whose link request with this state is pending
NoHist == [reg |-> 0, hit |-> 0, late |-> 0, note |-> 0, write |-> 0, by |-> {}]

\* ------------------------------------------------------------------
\* Credential Store (engine/sqlite/database.py)
\* ------------------------------------------------------------------
credentials_exists(c) == creds[c] # NoCred

\* Variant: the row is written whether or not the chat has one
create_credentials_replace(db, c, b) == [db EXCEPT ![c] = b]

\* create_credentials: a row is created only when the chat has none
create_credentials(db, c, b) == IF db[c] = NoCred THEN [db EXCEPT ![c] = b] ELSE db

delete_credentials(db, c) == [db EXCEPT ![c] = NoCred]

\* Variant: a refresh stores the credentials of another grant
str_to_credentials_regrant(db, c, refresh) ==
    IF refresh = "refreshed"
    THEN [db EXCEPT ![c] = [grant |-> "b2", gen |-> 0]]
    ELSE db

\* gcal.str_to_credentials on db.get_credentials(chat_id): when the token is
\* expired and the refresh succeeds, the new token is written back by
\* update_credentials; when the refresh raises nothing is written. Used
\* only where a row exists.
str_to_credentials(db, c, refresh) ==
    IF refresh = "refreshed"
    THEN [db EXCEPT ![c] = [@ EXCEPT !.gen = @ + 1]]
    ELSE db

\* The refreshes of one row are counted up to MaxRefresh: a handler that
\* meets one more expired token is not taken.
Refreshable(c, refresh) == refresh = "refreshed" => creds[c].gen < MaxRefresh

\* ------------------------------------------------------------------
\* Web process: GET /oauth2callback (engine/fastapi/web.py)
\* ------------------------------------------------------------------
\* ipc_queue.put(m) by producer p: the object goes to the buffer of the
\* putting process, whose feeder thread writes it to the pipe later, so
\* the puts of one producer stay in order and those of two do not.
Put(p, m) ==
    /\ queue' = [queue EXCEPT ![p] = Append(@, m)]
    /\ sent' = Append(sent, m)

Requests == Cardinality({i \in 1..Len(sent) : sent[i].type = "dict" /\ sent[i].state # ""})

\* Outcomes of get_authz_token: it returns the credentials, raises
\* InvalidGrantError, or raises another exception of flow.fetch_token
GrantOutcomes == {"ok", "InvalidGrantError", "Exception"}

\* state: the state parameter; error: the error parameter is present;
\* grant: the outcome of get_authz_token, which returns b when "ok".
\* The record holds the query parameters, the exchange and the response.
oauth2callback(state, error, grant, b) ==
    /\ Requests < MaxSent
    /\ LET page == << Tg("response", NoChat, <<"exit_js_script">>, 0) >>
           call == << Ended(Gw("get_authz_token", <<>>, <<>>, ""),
                            IF grant = "ok" THEN "" ELSE grant) >>
       IN
       IF error
       THEN \* lines 22-25
            /\ Put("web", Denied(state))
            /\ last' = EvA("oauth2callback", "http", NoChat, <<state, "error">>, TRUE,
                           <<>>, page)
       ELSE IF grant = "InvalidGrantError"
            THEN \* lines 29-31
                 /\ UNCHANGED <<queue, sent>>
                 /\ last' = EvA("oauth2callback", "http", NoChat, <<state>>, TRUE, call, page)
            ELSE IF grant = "Exception"
                 THEN \* not caught: the framework answers with a server error
                      /\ UNCHANGED <<queue, sent>>
                      /\ last' = EvA("oauth2callback", "http", NoChat, <<state>>, FALSE,
                                     call, <<>>)
                 ELSE \* lines 33-35
                      /\ Put("web", Granted(state, b))
                      /\ last' = EvA("oauth2callback", "http", NoChat, <<state>>, TRUE,
                                     call, page)
    /\ UNCHANGED <<creds, bot_data, dpc, cur, dchat, processed, lifeVars, sessionVars,
                   links, hist>>

\* An object of another shape arrives on ipc_queue (webauth_callback takes
\* whatever ipc_queue.get() returns).
foreign_put(m) ==
    /\ Cardinality({i \in 1..Len(sent) : sent[i] \in ForeignMessages}) < MaxForeign
    /\ Put("other", m)
    /\ last' = Ev("put", "queue", NoChat, TRUE, <<>>, <<>>)
    /\ UNCHANGED <<creds, bot_data, dpc, cur, dchat, processed, lifeVars, sessionVars,
                   links, hist>>

\* ------------------------------------------------------------------
\* webauth_callback thread (tg_handlers.py 666-702)
\* ------------------------------------------------------------------
\* ipc_queue.get() and the type dispatch of lines 675-702
DGet ==
    /\ dpc = "get"
    /\ \E p \in Producers :
        /\ queue[p] # <<>>
        /\ LET m == Head(queue[p]) IN
            /\ queue' = [queue EXCEPT ![p] = Tail(@)]
            /\ processed' = Append(processed, m)
            /\ IF m.type = "bool"
               THEN dpc' = "done" /\ cur' = cur
               ELSE IF m.type = "dict"
                    THEN IF m.state = ""
                         THEN \* line 683: KeyError on ipc_data[STATE_KEY], not caught
                              dpc' = "crashed" /\ cur' = cur
                         ELSE dpc' = "pop" /\ cur' = m
                    ELSE \* lines 701-702: logged, next iteration
                         dpc' = "get" /\ cur' = cur
    /\ last' = Ev("get", "thread", NoChat, TRUE, <<>>, <<>>)
    /\ UNCHANGED <<creds, bot_data, dchat, sent, lifeVars, sessionVars, links, hist>>

\* Variant: bot_data[state] is read and the key is left in place
DPop_keep ==
    /\ dpc = "pop"
    /\ LET t == cur.state IN
        IF bot_data[t] # NoChat
        THEN /\ dchat' = bot_data[t]
             /\ bot_data' = bot_data
             /\ hist' = [hist EXCEPT ![t].hit = @ + 1]
             /\ dpc' = IF cur.credentials = NoCred THEN "deny" ELSE "create"
             /\ cur' = cur
             /\ last' = EvA("consume", "thread", bot_data[t], <<t>>, TRUE, <<>>, <<>>)
        ELSE /\ hist' = [hist EXCEPT ![t].late = IF hist[t].reg > 0 THEN @ + 1 ELSE @]
             /\ dpc' = "get"
             /\ cur' = Shutdown
             /\ last' = EvA("not_found", "thread", NoChat, <<t>>, TRUE, <<>>, <<>>)
             /\ UNCHANGED <<bot_data, dchat>>
    /\ UNCHANGED <<creds, queue, sent, processed, lifeVars, sessionVars, links>>

\* Variant: the KeyError of an unknown state is not caught and ends the thread
DPop_uncaught ==
    /\ dpc = "pop"
    /\ LET t == cur.state IN
        IF bot_data[t] # NoChat
        THEN /\ dchat' = bot_data[t]
             /\ bot_data' = [bot_data EXCEPT ![t] = NoChat]
             /\ hist' = [hist EXCEPT ![t] = [@ EXCEPT !.hit = @ + 1, !.by = {}]]
             /\ dpc' = IF cur.credentials = NoCred THEN "deny" ELSE "create"
             /\ cur' = cur
             /\ last' = EvA("consume", "thread", bot_data[t], <<t>>, TRUE, <<>>, <<>>)
        ELSE /\ hist' = [hist EXCEPT ![t].late = IF hist[t].reg > 0 THEN @ + 1 ELSE @]
             /\ dpc' = "crashed"
             /\ cur' = Shutdown
             /\ last' = EvA("not_found", "thread", NoChat, <<t>>, FALSE, <<>>, <<>>)
             /\ UNCHANGED <<bot_data, dchat>>
    /\ UNCHANGED <<creds, queue, sent, processed, lifeVars, sessionVars, links>>

\* Variant: the pop is not atomic with respect to the other keys, the
\* registrations made by other chats are lost with it
DPop_lossy ==
    /\ dpc = "pop"
    /\ LET t == cur.state IN
        IF bot_data[t] # NoChat
        THEN /\ dchat' = bot_data[t]
             /\ bot_data' = [u \in Tokens |-> NoChat]
             /\ hist' = [hist EXCEPT ![t] = [@ EXCEPT !.hit = @ + 1, !.by = {}]]
             /\ dpc' = IF cur.credentials = NoCred THEN "deny" ELSE "create"
             /\ cur' = cur
             /\ last' = EvA("consume", "thread", bot_data[t], <<t>>, TRUE, <<>>, <<>>)
        ELSE /\ hist' = [hist EXCEPT ![t].late = IF hist[t].reg > 0 THEN @ + 1 ELSE @]
             /\ dpc' = "get"
             /\ cur' = Shutdown
             /\ last' = EvA("not_found", "thread", NoChat, <<t>>, TRUE, <<>>, <<>>)
             /\ UNCHANGED <<bot_data, dchat>>
    /\ UNCHANGED <<creds, queue, sent, processed, lifeVars, sessionVars, links>>

\* dispatcher.bot_data.pop(state), KeyError logged (lines 684-689), and
\* ipc_data.pop(CREDENTIALS_KEY) choosing the branch (lines 692-694)
DPop ==
    /\ dpc = "pop"
    /\ LET t == cur.state IN
        IF bot_data[t] # NoChat
        THEN /\ dchat' = bot_data[t]
             /\ bot_data' = [bot_data EXCEPT ![t] = NoChat]
             /\ hist' = [hist EXCEPT ![t] = [@ EXCEPT !.hit = @ + 1, !.by = {}]]
             /\ dpc' = IF cur.credentials = NoCred THEN "deny" ELSE "create"
             /\ cur' = cur
             /\ last' = EvA("consume", "thread", bot_data[t], <<t>>, TRUE, <<>>, <<>>)
        ELSE /\ hist' = [hist EXCEPT ![t].late = IF hist[t].reg > 0 THEN @ + 1 ELSE @]
             /\ dpc' = "get"
             /\ cur' = Shutdown
             /\ last' = EvA("not_found", "thread", NoChat, <<t>>, TRUE, <<>>, <<>>)
             /\ UNCHANGED <<bot_data, dchat>>
    /\ UNCHANGED <<creds, queue, sent, processed, lifeVars, sessionVars, links>>

\* Variant: a denial also deletes the chat's credentials
DDeny_delete(raised) ==
    /\ dpc = "deny"
    /\ IF raised
       THEN /\ dpc' = "crashed"
            /\ last' = Ev("deny", "thread", dchat, FALSE, <<>>, <<>>)
            /\ UNCHANGED <<hist, creds>>
       ELSE /\ dpc' = "get"
            /\ creds' = delete_credentials(creds, dchat)
            /\ hist' = [hist EXCEPT ![cur.state].note = @ + 1]
            /\ last' = Ev("deny", "thread", dchat, TRUE, <<>>,
                          << Tg("send_message", dchat, TG_AUTH_FAILED, 0) >>)
    /\ cur' = Shutdown
    /\ dchat' = NoChat
    /\ UNCHANGED <<bot_data, queue, sent, processed, lifeVars, sessionVars, links>>

\* lines 695-697: the user denied access; raised: send_message raises
DDeny(raised) ==
    /\ dpc = "deny"
    /\ IF raised
       THEN /\ dpc' = "crashed"
            /\ last' = Ev("deny", "thread", dchat, FALSE, <<>>, <<>>)
            /\ UNCHANGED hist
       ELSE /\ dpc' = "get"
            /\ hist' = [hist EXCEPT ![cur.state].note = @ + 1]
            /\ last' = Ev("deny", "thread", dchat, TRUE, <<>>,
                          << Tg("send_message", dchat, TG_AUTH_FAILED, 0) >>)
    /\ cur' = Shutdown
    /\ dchat' = NoChat
    /\ UNCHANGED <<creds, bot_data, queue, sent, processed, lifeVars, sessionVars, links>>

\* line 699: db.create_credentials; raised: the database call raises
DCreate(raised) ==
    /\ dpc = "create"
    /\ IF raised
       THEN /\ dpc' = "crashed"
            /\ cur' = Shutdown
            /\ dchat' = NoChat
            /\ last' = Ev("create", "thread", dchat, FALSE, <<>>, <<>>)
            /\ UNCHANGED <<creds, hist>>
       ELSE /\ dpc' = "notify"
            /\ creds' = create_credentials(creds, dchat, cur.credentials)
            /\ hist' = [hist EXCEPT ![cur.state].write = @ + 1]
            /\ last' = Ev("create", "thread", dchat, TRUE, <<>>, <<>>)
            /\ UNCHANGED <<cur, dchat>>
    /\ UNCHANGED <<bot_data, queue, sent, processed, lifeVars, sessionVars, links>>

\* line 700: send_message(TG_AUTH_COMPLETE); raised: send_message raises
DNotify(raised) ==
    /\ dpc = "notify"
    /\ IF raised
       THEN /\ dpc' = "crashed"
            /\ last' = Ev("notify", "thread", dchat, FALSE, <<>>, <<>>)
            /\ UNCHANGED hist
       ELSE /\ dpc' = "get"
            /\ hist' = [hist EXCEPT ![cur.state].note = @ + 1]
            /\ last' = Ev("notify", "thread", dchat, TRUE, <<>>,
                          << Tg("send_message", dchat, TG_AUTH_COMPLETE, 0) >>)
    /\ cur' = Shutdown
    /\ dchat' = NoChat
    /\ UNCHANGED <<creds, bot_data, queue, sent, processed, lifeVars, sessionVars, links>>

webauth_callback ==
    \/ DGet
    \/ DPop
    \/ \E raised \in BOOLEAN : DDeny(raised)
    \/ \E raised \in BOOLEAN : DCreate(raised)
    \/ \E raised \in BOOLEAN : DNotify(raised)

\* ------------------------------------------------------------------
\* Main thread of start_bot and the signal handler (lines 53-67, 786-789)
\*
\* Python runs a signal handler in the main thread; the other threads run
\* while it does.  _signal_handler is three statements: the library's
\* Updater._signal_handler, ipc_queue.put(True), event.set().
\* Updater._signal_handler (python-telegram-bot, outside this repository)
\* stops the updater when it is running, which waits for the dispatcher
\* thread to end its current update, and calls os._exit(1) when the updater
\* was stopped before.
\* ------------------------------------------------------------------
\* CustomUpdater.idle up to event.wait(): the event is created and
\* _signal_handler installed for SIGINT, SIGTERM, SIGABRT
idle ==
    /\ mpc = "idle"
    /\ mpc' = "wait"
    /\ event' = FALSE
    /\ last' = Ev("idle", "main", NoChat, TRUE, <<>>, <<>>)
    /\ UNCHANGED <<creds, bot_data, handoffVars, running, spc, sigs, sessionVars,
                   links, hist>>

\* event.wait() returns once the event is set
idle_return ==
    /\ mpc = "wait"
    /\ spc = "none"
    /\ event
    /\ mpc' = "join"
    /\ last' = Ev("idle_return", "main", NoChat, TRUE, <<>>, <<>>)
    /\ UNCHANGED <<creds, bot_data, handoffVars, running, event, spc, sigs, sessionVars,
                   links, hist>>

\* callback_thread.join() returns when the thread has ended
join ==
    /\ mpc = "join"
    /\ spc = "none"
    /\ dpc \in {"done", "crashed"}
    /\ mpc' = "exited"
    /\ last' = Ev("join", "main", NoChat, TRUE, <<>>, <<>>)
    /\ UNCHANGED <<creds, bot_data, handoffVars, running, event, spc, sigs, sessionVars,
                   links, hist>>

\* SIGTERM or SIGABRT before idle() has installed the handler, or after
\* KeyboardInterrupt has ended start_bot: the signal's default action ends
\* the process and every thread of it; nothing is put
SignalDefault ==
    /\ mpc \in {"idle", "raised"}
    /\ sigs < MaxSignals
    /\ sigs' = sigs + 1
    /\ mpc' = "killed"
    /\ dpc' = "killed"
    /\ last' = Ev("SignalDefault", "signal", NoChat, FALSE, <<>>, <<>>)
    /\ UNCHANGED <<creds, bot_data, queue, cur, dchat, sent, processed, running, event,
                   spc, sessionVars, links, hist>>

\* SIGINT before idle() has installed the handler: KeyboardInterrupt ends
\* start_bot; nothing is put and the other threads go on
KeyboardInterrupt ==
    /\ mpc = "idle"
    /\ sigs < MaxSignals
    /\ sigs' = sigs + 1
    /\ mpc' = "raised"
    /\ last' = Ev("KeyboardInterrupt", "signal", NoChat, FALSE, <<>>, <<>>)
    /\ UNCHANGED <<creds, bot_data, handoffVars, running, event, spc, sessionVars,
                   links, hist>>

\* line 63 with the updater running: Updater.stop() sets running to False
\* and starts to join the dispatcher threads
signal_handler_stop ==
    /\ mpc \in {"wait", "join"}
    /\ spc = "none"
    /\ running
    /\ sigs < MaxSignals
    /\ sigs' = sigs + 1
    /\ running' = FALSE
    /\ spc' = "stop"
    /\ last' = Ev("_signal_handler", "signal", NoChat, TRUE, <<>>, <<>>)
    /\ UNCHANGED <<creds, bot_data, handoffVars, mpc, event, sessionVars, links, hist>>

\* line 63 returns: the dispatcher thread has ended its current update
signal_handler_stopped ==
    /\ spc = "stop"
    /\ hpc = NoHandler
    /\ spc' = "put"
    /\ last' = Ev("stop", "signal", NoChat, TRUE, <<>>, <<>>)
    /\ UNCHANGED <<creds, bot_data, handoffVars, mpc, running, event, sigs, sessionVars,
                   links, hist>>

\* line 65: ipc_queue.put(True)
signal_handler_put ==
    /\ spc = "put"
    /\ Put("tg", Shutdown)
    /\ spc' = "set"
    /\ last' = Ev("put", "signal", NoChat, TRUE, <<>>, <<>>)
    /\ UNCHANGED <<creds, bot_data, dpc, cur, dchat, processed, mpc, running, event, sigs,
                   sessionVars, links, hist>>

\* line 67: event.set()
signal_handler_set ==
    /\ spc = "set"
    /\ event' = TRUE
    /\ spc' = "none"
    /\ last' = Ev("set", "signal", NoChat, TRUE, <<>>, <<>>)
    /\ UNCHANGED <<creds, bot_data, handoffVars, mpc, running, sigs, sessionVars,
                   links, hist>>

\* line 63 with the updater stopped (a signal handled before): os._exit(1)
\* ends the process and every thread of it at once
signal_handler_exit ==
    /\ mpc \in {"wait", "join"}
    /\ ~running
    /\ sigs < MaxSignals
    /\ sigs' = sigs + 1
    /\ mpc' = "killed"
    /\ dpc' = "killed"
    /\ spc' = "none"
    /\ last' = Ev("os._exit", "signal", NoChat, FALSE, <<>>, <<>>)
    /\ UNCHANGED <<creds, bot_data, queue, cur, dchat, sent, processed, running, event,
                   sessionVars, links, hist>>

signal_handler ==
    \/ signal_handler_stop
    \/ signal_handler_stopped
    \/ signal_handler_put
    \/ signal_handler_set
    \/ signal_handler_exit

\* ------------------------------------------------------------------
\* Update handlers (tg_handlers.py 159-663)
\*
\* The dispatcher thread runs one handler at a time.  A handler is one
\* action, except start without a credential row, whose accesses to the
\* state it shares with the webauth_callback thread (the credential table
\* at line 173, bot_data at line 176) are separate steps.  Inputs of a
\* handler: m (the message whose button was pressed), refresh (what
\* str_to_credentials meets), acl (the list get_acl_users returns), gwOk
\* (the Calendar Gateway call returns; otherwise it raises HttpError) or
\* gwx (how the call ends, for the calls that may also raise KeyError), tgf
\* (which Telegram call of the handler raises a TelegramError other than
\* BadRequest; 0: none).  A handler that raises leaves the
\* ConversationHandler state as it was and keeps what it had written
\* before the exception.
\* ------------------------------------------------------------------
\* Outcome of a handler: the state it returns (or the old state when it
\* raised), chat_data, the chat's keyboard messages, the credential table,
\* the record
Done(c, st, data, pr, db, ev) ==
    /\ conv' = [conv EXCEPT ![c] = st]
    /\ chat_data' = [chat_data EXCEPT ![c] = data]
    /\ prompt' = [prompt EXCEPT ![c] = pr]
    /\ creds' = db
    /\ last' = ev

\* edit_message_text raises BadRequest: the message is gone, text and
\* reply_markup are exactly the ones it already shows, or the text is empty
BadRequest(c, id, content) ==
    \/ ~Message(c, id).exists
    \/ Message(c, id) = content
    \/ content.text = <<>>

\* start with a credential row, lines 180-219.  tgf 1: the first Telegram
\* call raises; 2 (button): edit_message_text raises another error than
\* BadRequest.  Without a row (line 173) the handler goes on in start_link;
\* the links issued are counted up to MaxLinks.
start(c, via, m, u, r, refresh, gwOk, tgf) ==
    IF ~credentials_exists(c)
    THEN /\ links < MaxLinks
         /\ hpc' = [chat |-> c, via |-> via, msg |-> m, pos |-> "link", state |-> ""]
         /\ last' = EvX("credentials_exists", "step", c, <<>>, "", <<>>, <<>>)
         /\ UNCHANGED <<creds, bot_data, links, hist, conv, chat_data, prompt>>
    ELSE /\ Refreshable(c, refresh)
         /\ UNCHANGED <<bot_data, links, hist, hpc>>
         /\ LET db == str_to_credentials(creds, c, refresh)
                gw == << Called(Gw("get_calendars", <<>>, <<>>, ""), gwOk) >>
                menu == Shown(PROMPT_INITIAL_MENU, initial_keyboard)
                answer == Tg("answer_callback_query", c, <<>>, 0)
            IN
            IF refresh = "RefreshError"
            THEN Done(c, conv[c], chat_data[c], prompt[c], creds,
                      EvX("start", via, c, <<>>, "RefreshError", <<>>, <<>>))
            ELSE IF ~gwOk
            THEN Done(c, conv[c], chat_data[c], prompt[c], db,
                      EvX("start", via, c, <<>>, "HttpError", gw, <<>>))
            ELSE IF via = "command"
                 THEN IF chat_data[c].inline_msg # 0
                      THEN \* lines 199-202: another keyboard is active
                           IF tgf = 1
                           THEN Done(c, conv[c], chat_data[c], prompt[c], db,
                                     EvX("start", via, c, <<>>, "TelegramError", gw, <<>>))
                           ELSE Done(c, STATE_CALENDAR_SELECTION, chat_data[c], prompt[c], db,
                                     EvX("start", via, c, <<>>, "", gw,
                                         << Tg("send_message", c, TG_KEYBOARD_ACTIVE,
                                               chat_data[c].inline_msg) >>))
                      ELSE \* lines 204-209: a new keyboard message
                           /\ Len(prompt[c]) < MaxKeyboards
                           /\ u = 2 * Len(prompt[c]) + 1
                           /\ r = u + 1
                           /\ IF tgf = 1
                              THEN Done(c, conv[c], chat_data[c], prompt[c], db,
                                        EvX("start", via, c, <<>>, "TelegramError", gw, <<>>))
                              ELSE Done(c, STATE_CALENDAR_SELECTION,
                                        [chat_data[c] EXCEPT !.initial_msg = u, !.inline_msg = r],
                                        Append(prompt[c], menu), db,
                                        EvX("start", via, c, <<>>, "", gw,
                                            << Tg("reply_text", c, PROMPT_INITIAL_MENU, u) >>))
                 ELSE \* lines 211-217: via a button; BadRequest is swallowed
                      IF tgf = 1
                      THEN Done(c, conv[c], chat_data[c], prompt[c], db,
                                EvX("start", via, c, <<>>, "TelegramError", gw, <<>>))
                      ELSE IF tgf = 2
                      THEN Done(c, conv[c], chat_data[c], prompt[c], db,
                                EvX("start", via, c, <<>>, "TelegramError", gw, <<answer>>))
                      ELSE Done(c, STATE_CALENDAR_SELECTION, chat_data[c],
                                IF BadRequest(c, m, menu) THEN prompt[c] ELSE Edited(c, m, menu),
                                db,
                                EvX("start", via, c, <<>>, "", gw,
                                    << answer,
                                       Tg("edit_message_text", c, PROMPT_INITIAL_MENU, 0) >>))

\* start without a row, lines 174-176: the link is built and its state
\* registered in bot_data
start_link(c, tkn) ==
    /\ hpc.chat = c
    /\ hpc.pos = "link"
    /\ links' = links + 1
    /\ bot_data' = [bot_data EXCEPT ![tkn] = c]
    /\ hist' = [hist EXCEPT ![tkn] = [@ EXCEPT !.reg = @ + 1, !.by = @ \cup {c}]]
    /\ hpc' = [hpc EXCEPT !.pos = "send", !.state = tkn]
    /\ last' = EvX("register", "step", c, <<tkn>>, "",
                   <<Gw("get_authz_link", <<>>, <<>>, "")>>, <<>>)
    /\ UNCHANGED <<creds, conv, chat_data, prompt>>

\* Variant: after sending the link the conversation is left open
start_send_opens(c, tgf) ==
    /\ hpc.chat = c
    /\ hpc.pos = "send"
    /\ hpc' = NoHandler
    /\ UNCHANGED <<bot_data, links, hist>>
    /\ IF tgf = 1
       THEN Done(c, conv[c], chat_data[c], prompt[c], creds,
                 EvX("start", hpc.via, c, <<hpc.state>>, "TelegramError",
                     <<Gw("get_authz_link", <<>>, <<>>, "")>>, <<>>))
       ELSE Done(c, STATE_CALENDAR_SELECTION, chat_data[c], prompt[c], creds,
                 EvX("start", hpc.via, c, <<hpc.state>>, "",
                     <<Gw("get_authz_link", <<>>, <<>>, "")>>,
                     << Tg("send_message", c, TG_AUTHZ_URL(hpc.state), 0) >>))

\* start without a row, lines 177-178: the link is sent and the handler
\* returns STATE_END; tgf 1: send_message raises
start_send(c, tgf) ==
    /\ hpc.chat = c
    /\ hpc.pos = "send"
    /\ hpc' = NoHandler
    /\ UNCHANGED <<bot_data, links, hist>>
    /\ IF tgf = 1
       THEN Done(c, conv[c], chat_data[c], prompt[c], creds,
                 EvX("start", hpc.via, c, <<hpc.state>>, "TelegramError",
                     <<Gw("get_authz_link", <<>>, <<>>, "")>>, <<>>))
       ELSE Done(c, STATE_END, chat_data[c], prompt[c], creds,
                 EvX("start", hpc.via, c, <<hpc.state>>, "",
                     <<Gw("get_authz_link", <<>>, <<>>, "")>>,
                     << Tg("send_message", c, TG_AUTHZ_URL(hpc.state), 0) >>))

\* select_calendar_inline, lines 453-467
select_calendar_inline(c, m, data, tgf) ==
    /\ UNCHANGED <<bot_data, links, hist, hpc>>
    /\ LET parts == Split(data) IN
       IF Len(parts) # 2
       THEN Done(c, conv[c], chat_data[c], prompt[c], creds,
                 EvX("select_calendar_inline", "button", c, data, "ValueError", <<>>, <<>>))
       ELSE LET calendar == parts[2]
                content == Shown(PROMPT_CHOOSE_ACTION(calendar), calendar_keyboard(calendar))
            IN
            IF tgf = 1 \/ BadRequest(c, m, content)
            THEN Done(c, conv[c], chat_data[c], prompt[c], creds,
                      EvX("select_calendar_inline", "button", c, data,
                          IF tgf = 1 THEN "TelegramError" ELSE "BadRequest", <<>>, <<>>))
            ELSE Done(c, STATE_ACTION_SELECTION, chat_data[c], Edited(c, m, content), creds,
                      EvX("select_calendar_inline", "button", c, data, "", <<>>,
                          << Tg("edit_message_text", c, content.text, 0) >>))

\* show_share_inline, lines 470-485, with __show_share, lines 261-279
show_share_inline(c, m, data, refresh, acl, gwx, tgf) ==
    /\ UNCHANGED <<bot_data, links, hist, hpc>>
    /\ credentials_exists(c) => Refreshable(c, refresh)
    /\ LET parts == Split(data) IN
       IF Len(parts) # 2 \/ ~credentials_exists(c) \/ refresh = "RefreshError"
       THEN Done(c, conv[c], chat_data[c], prompt[c], creds,
                 EvX("show_share_inline", "button", c, data,
                     IF Len(parts) # 2 THEN "ValueError"
                     ELSE IF ~credentials_exists(c) THEN "DoesNotExist" ELSE "RefreshError",
                     <<>>, <<>>))
       ELSE LET calendar == parts[2]
                content == Shown(ACL_LISTING(acl), default_keyboard(calendar))
                db == str_to_credentials(creds, c, refresh)
                gw == << Ended(Gw("get_acl_users", calendar, <<>>, ""), gwx) >>
            IN
            IF gwx # "" \/ UnknownRole(acl) \/ tgf = 1 \/ BadRequest(c, m, content)
            THEN Done(c, conv[c], chat_data[c], prompt[c], db,
                      EvX("show_share_inline", "button", c, data,
                          IF gwx # "" THEN gwx
                          ELSE IF UnknownRole(acl) THEN "KeyError"
                          ELSE IF tgf = 1 THEN "TelegramError" ELSE "BadRequest",
                          gw, <<>>))
            ELSE Done(c, STATE_ACTION_SELECTION, chat_data[c], Edited(c, m, content), db,
                      EvX("show_share_inline", "button", c, data, "", gw,
                          << Tg("edit_message_text", c, content.text, 0) >>))

\* add_share_inline (lines 488-502): remember the calendar, then ask for the e-mail
add_share_inline(c, m, data, tgf) ==
    /\ UNCHANGED <<bot_data, links, hist, hpc>>
    /\ LET parts == Split(data) IN
       IF Len(parts) # 2
       THEN Done(c, conv[c], chat_data[c], prompt[c], creds,
                 EvX("add_share_inline", "button", c, data, "ValueError", <<>>, <<>>))
       ELSE LET calendar == parts[2]
                data1 == [chat_data[c] EXCEPT !.calendar_name = calendar]
                content == Shown(PROMPT_SHARE_EMAIL(calendar), default_keyboard(calendar))
            IN
            IF tgf = 1 \/ BadRequest(c, m, content)
            THEN Done(c, conv[c], data1, prompt[c], creds,
                      EvX("add_share_inline", "button", c, data,
                          IF tgf = 1 THEN "TelegramError" ELSE "BadRequest", <<>>, <<>>))
            ELSE Done(c, STATE_ADD_SHARE, data1, Edited(c, m, content), creds,
                      EvX("add_share_inline", "button", c, data, "", <<>>,
                          << Tg("edit_message_text", c, content.text, 0) >>))

\* delete_share_inline (lines 575-589): remember the calendar, then ask for the e-mail
delete_share_inline(c, m, data, tgf) ==
    /\ UNCHANGED <<bot_data, links, hist, hpc>>
    /\ LET parts == Split(data) IN
       IF Len(parts) # 2
       THEN Done(c, conv[c], chat_data[c], prompt[c], creds,
                 EvX("delete_share_inline", "button", c, data, "ValueError", <<>>, <<>>))
       ELSE LET calendar == parts[2]
                data1 == [chat_data[c] EXCEPT !.calendar_name = calendar]
                content == Shown(PROMPT_DELETE_EMAIL(calendar), default_keyboard(calendar))
            IN
            IF tgf = 1 \/ BadRequest(c, m, content)
            THEN Done(c, conv[c], data1, prompt[c], creds,
                      EvX("delete_share_inline", "button", c, data,
                          IF tgf = 1 THEN "TelegramError" ELSE "BadRequest", <<>>, <<>>))
            ELSE Done(c, STATE_DELETE_SHARE, data1, Edited(c, m, content), creds,
                      EvX("delete_share_inline", "button", c, data, "", <<>>,
                          << Tg("edit_message_text", c, content.text, 0) >>))

\* Variant: a text that is no e-mail leads back to the action menu
NotEmail_back(op, c, email, st, tgf) ==
    LET id == chat_data[c].inline_msg
        calendar == chat_data[c].calendar_name
        content == Shown(PROMPT_NOT_EMAIL, default_keyboard(calendar))
        del == Tg("delete_message", c, <<>>, 0)
    IN
    IF tgf = 2
    THEN Done(c, conv[c], chat_data[c], prompt[c], creds,
              EvX(op, "text", c, email, "TelegramError", <<>>, <<del>>))
    ELSE Done(c, STATE_ACTION_SELECTION, chat_data[c],
              IF BadRequest(c, id, content) THEN prompt[c] ELSE Edited(c, id, content), creds,
              EvX(op, "text", c, email, "", <<>>,
                  << del, Tg("edit_message_text", c, PROMPT_NOT_EMAIL, id) >>))

\* lines 524-531 and 610-617: the text is no e-mail; the keyboard message
\* of the session is edited with BadRequest swallowed and the state
\* returned is the same one
NotEmail(op, c, email, st, tgf) ==
    LET id == chat_data[c].inline_msg
        calendar == chat_data[c].calendar_name
        content == Shown(PROMPT_NOT_EMAIL, default_keyboard(calendar))
        del == Tg("delete_message", c, <<>>, 0)
    IN
    IF tgf = 2
    THEN Done(c, conv[c], chat_data[c], prompt[c], creds,
              EvX(op, "text", c, email, "TelegramError", <<>>, <<del>>))
    ELSE Done(c, st, chat_data[c],
              IF BadRequest(c, id, content) THEN prompt[c] ELSE Edited(c, id, content), creds,
              EvX(op, "text", c, email, "", <<>>,
                  << del, Tg("edit_message_text", c, PROMPT_NOT_EMAIL, id) >>))

\* add_share_inline_email, lines 505-537.  tgf 1: delete_message raises;
\* 2: edit_message_text raises another error than BadRequest
add_share_inline_email(c, email, tgf) ==
    /\ UNCHANGED <<bot_data, links, hist, hpc>>
    /\ IF chat_data[c].inline_msg = 0 \/ chat_data[c].calendar_name = NoName
       THEN \* KeyError on chat_data, lines 515-516
            Done(c, conv[c], chat_data[c], prompt[c], creds,
                 EvX("add_share_inline_email", "text", c, email, "KeyError", <<>>, <<>>))
       ELSE IF tgf = 1
       THEN Done(c, conv[c], chat_data[c], prompt[c], creds,
                 EvX("add_share_inline_email", "text", c, email, "TelegramError", <<>>, <<>>))
       ELSE IF ~validate_email(email)
            THEN NotEmail("add_share_inline_email", c, email, STATE_ADD_SHARE, tgf)
            ELSE LET id == chat_data[c].inline_msg
                     calendar == chat_data[c].calendar_name
                     content == Shown(PROMPT_CHOOSE_ROLE(email, calendar),
                                      add_share_keyboard(calendar, email))
                     del == Tg("delete_message", c, <<>>, 0)
                 IN
                 IF tgf = 2 \/ BadRequest(c, id, content)
                 THEN Done(c, conv[c], chat_data[c], prompt[c], creds,
                           EvX("add_share_inline_email", "text", c, email,
                               IF tgf = 2 THEN "TelegramError" ELSE "BadRequest",
                               <<>>, <<del>>))
                 ELSE Done(c, STATE_ADD_SHARE_ROLE, chat_data[c], Edited(c, id, content), creds,
                           EvX("add_share_inline_email", "text", c, email, "", <<>>,
                               << del, Tg("edit_message_text", c, content.text, id) >>))

\* add_share_inline_role, lines 540-560, with __add_share, lines 282-296
add_share_inline_role(c, data, access_type, refresh, gwOk, tgf) ==
    /\ UNCHANGED <<bot_data, links, hist, hpc>>
    /\ credentials_exists(c) => Refreshable(c, refresh)
    /\ IF chat_data[c].inline_msg = 0 \/ chat_data[c].calendar_name = NoName
       THEN \* KeyError before anything is written
            Done(c, conv[c], chat_data[c], prompt[c], creds,
                 EvX("add_share_inline_role", "button", c, data, "KeyError", <<>>, <<>>))
       ELSE LET id == chat_data[c].inline_msg
                calendar == chat_data[c].calendar_name
                \* line 552: chat_data.pop(INLINE_CALENDAR_KEY)
                data1 == [chat_data[c] EXCEPT !.calendar_name = NoName]
                parts == Split(data)
            IN
            IF Len(parts) # 2 \/ ~credentials_exists(c) \/ refresh = "RefreshError"
            THEN Done(c, conv[c], data1, prompt[c], creds,
                      EvX("add_share_inline_role", "button", c, data,
                          IF Len(parts) # 2 THEN "ValueError"
                          ELSE IF ~credentials_exists(c) THEN "DoesNotExist"
                          ELSE "RefreshError",
                          <<>>, <<>>))
            ELSE LET email == parts[2]
                     db == str_to_credentials(creds, c, refresh)
                     gw == << Called(Gw("add_acl_user", calendar, email, access_type), gwOk) >>
                     content == Shown(TG_USER_ADDED(email, access_type, calendar),
                                      default_keyboard(calendar))
                 IN
                 IF ~gwOk \/ tgf = 1 \/ BadRequest(c, id, content)
                 THEN Done(c, conv[c], data1, prompt[c], db,
                           EvX("add_share_inline_role", "button", c, data,
                               IF ~gwOk THEN "HttpError"
                               ELSE IF tgf = 1 THEN "TelegramError" ELSE "BadRequest",
                               gw, <<>>))
                 ELSE Done(c, STATE_ACTION_SELECTION, data1, Edited(c, id, content), db,
                           EvX("add_share_inline_role", "button", c, data, "", gw,
                               << Tg("edit_message_text", c, content.text, id) >>))

add_share_inline_freebusy(c, data, refresh, gwOk, tgf) ==
    add_share_inline_role(c, data, FREE_BUSY_READER, refresh, gwOk, tgf)

add_share_inline_reader(c, data, refresh, gwOk, tgf) ==
    add_share_inline_role(c, data, READER, refresh, gwOk, tgf)

add_share_inline_writer(c, data, refresh, gwOk, tgf) ==
    add_share_inline_role(c, data, WRITER, refresh, gwOk, tgf)

\* delete_share_inline_email, lines 592-625, with __delete_share, lines 299-312
delete_share_inline_email(c, email, refresh, gwx, tgf) ==
    /\ UNCHANGED <<bot_data, links, hist, hpc>>
    /\ (credentials_exists(c) /\ validate_email(email)) => Refreshable(c, refresh)
    /\ IF chat_data[c].inline_msg = 0 \/ chat_data[c].calendar_name = NoName
       THEN Done(c, conv[c], chat_data[c], prompt[c], creds,
                 EvX("delete_share_inline_email", "text", c, email, "KeyError", <<>>, <<>>))
       ELSE IF tgf = 1
       THEN Done(c, conv[c], chat_data[c], prompt[c], creds,
                 EvX("delete_share_inline_email", "text", c, email, "TelegramError",
                     <<>>, <<>>))
       ELSE IF ~validate_email(email)
            THEN NotEmail("delete_share_inline_email", c, email, STATE_DELETE_SHARE, tgf)
            ELSE LET id == chat_data[c].inline_msg
                     calendar == chat_data[c].calendar_name
                     del == Tg("delete_message", c, <<>>, 0)
                     gw == << Ended(Gw("delete_acl_user", calendar, email, ""), gwx) >>
                     content == Shown(TG_USER_DELETED(email, calendar),
                                      default_keyboard(calendar))
                 IN
                 IF ~credentials_exists(c) \/ refresh = "RefreshError"
                 THEN Done(c, conv[c], chat_data[c], prompt[c], creds,
                           EvX("delete_share_inline_email", "text", c, email,
                               IF ~credentials_exists(c) THEN "DoesNotExist"
                               ELSE "RefreshError",
                               <<>>, <<del>>))
                 ELSE LET db == str_to_credentials(creds, c, refresh) IN
                      IF gwx # ""
                      THEN Done(c, conv[c], chat_data[c], prompt[c], db,
                                EvX("delete_share_inline_email", "text", c, email,
                                    gwx, gw, <<del>>))
                      ELSE LET data1 == [chat_data[c] EXCEPT !.calendar_name = NoName] IN
                           IF tgf = 2 \/ BadRequest(c, id, content)
                           THEN Done(c, conv[c], data1, prompt[c], db,
                                     EvX("delete_share_inline_email", "text", c, email,
                                         IF tgf = 2 THEN "TelegramError" ELSE "BadRequest",
                                         gw, <<del>>))
                           ELSE Done(c, STATE_ACTION_SELECTION, data1,
                                     Edited(c, id, content), db,
                                     EvX("delete_share_inline_email", "text", c, email, "",
                                         gw,
                                         << del, Tg("edit_message_text", c, content.text,
                                                    id) >>))

\* Variant: the calendar name is left in chat_data
Finish_keep(op, c, db, pre, tgf) ==
    IF chat_data[c].inline_msg = 0
    THEN \* KeyError on the first pop
         Done(c, conv[c], chat_data[c], prompt[c], db,
              EvX(op, "button", c, <<>>, "KeyError", <<>>, pre))
    ELSE IF chat_data[c].initial_msg = 0
         THEN \* KeyError on the second pop: the first key is gone
              Done(c, conv[c], [chat_data[c] EXCEPT !.inline_msg = 0], prompt[c], db,
                   EvX(op, "button", c, <<>>, "KeyError", <<>>, pre))
         ELSE LET id == chat_data[c].inline_msg
                  cleared == [Message(c, id) EXCEPT !.kb = <<>>]
                  markup == Tg("edit_message_reply_markup", c, <<>>, id)
                  del1 == Tg("delete_message", c, <<>>, id)
                  del2 == Tg("delete_message", c, <<>>, chat_data[c].initial_msg)
              IN
              IF tgf = 1 \/ ~Message(c, id).exists \/ Message(c, id).kb = <<>>
              THEN Done(c, conv[c], [EmptyData EXCEPT !.calendar_name = chat_data[c].calendar_name], prompt[c], db,
                        EvX(op, "button", c, <<>>,
                            IF tgf = 1 THEN "TelegramError" ELSE "BadRequest", <<>>, pre))
              ELSE IF tgf = 2
                   THEN Done(c, conv[c], [EmptyData EXCEPT !.calendar_name = chat_data[c].calendar_name], Edited(c, id, cleared), db,
                             EvX(op, "button", c, <<>>, "TelegramError", <<>>,
                                 pre \o <<markup>>))
                   ELSE IF tgf = 3
                        THEN Done(c, conv[c], [EmptyData EXCEPT !.calendar_name = chat_data[c].calendar_name], Edited(c, id, NoPrompt), db,
                                  EvX(op, "button", c, <<>>, "TelegramError", <<>>,
                                      pre \o <<markup, del1>>))
                        ELSE Done(c, STATE_END, [EmptyData EXCEPT !.calendar_name = chat_data[c].calendar_name], Edited(c, id, NoPrompt), db,
                                  EvX(op, "button", c, <<>>, "", <<>>,
                                      pre \o <<markup, del1, del2>>))

\* finish_conversation, lines 651-663, entered with the credential table db
\* and the Telegram calls pre already made.  tgf 1: edit_message_reply_markup
\* raises; 2: the first delete_message raises; 3: the second one raises.
Finish(op, c, db, pre, tgf) ==
    IF chat_data[c].inline_msg = 0
    THEN \* KeyError on the first pop
         Done(c, conv[c], chat_data[c], prompt[c], db,
              EvX(op, "button", c, <<>>, "KeyError", <<>>, pre))
    ELSE IF chat_data[c].initial_msg = 0
         THEN \* KeyError on the second pop: the first key is gone
              Done(c, conv[c], [chat_data[c] EXCEPT !.inline_msg = 0], prompt[c], db,
                   EvX(op, "button", c, <<>>, "KeyError", <<>>, pre))
         ELSE LET id == chat_data[c].inline_msg
                  cleared == [Message(c, id) EXCEPT !.kb = <<>>]
                  markup == Tg("edit_message_reply_markup", c, <<>>, id)
                  del1 == Tg("delete_message", c, <<>>, id)
                  del2 == Tg("delete_message", c, <<>>, chat_data[c].initial_msg)
              IN
              IF tgf = 1 \/ ~Message(c, id).exists \/ Message(c, id).kb = <<>>
              THEN Done(c, conv[c], EmptyData, prompt[c], db,
                        EvX(op, "button", c, <<>>,
                            IF tgf = 1 THEN "TelegramError" ELSE "BadRequest", <<>>, pre))
              ELSE IF tgf = 2
                   THEN Done(c, conv[c], EmptyData, Edited(c, id, cleared), db,
                             EvX(op, "button", c, <<>>, "TelegramError", <<>>,
                                 pre \o <<markup>>))
                   ELSE IF tgf = 3
                        THEN Done(c, conv[c], EmptyData, Edited(c, id, NoPrompt), db,
                                  EvX(op, "button", c, <<>>, "TelegramError", <<>>,
                                      pre \o <<markup, del1>>))
                        ELSE Done(c, STATE_END, EmptyData, Edited(c, id, NoPrompt), db,
                                  EvX(op, "button", c, <<>>, "", <<>>,
                                      pre \o <<markup, del1, del2>>))

finish_conversation(c, tgf) ==
    /\ UNCHANGED <<bot_data, links, hist, hpc>>
    /\ Finish("finish_conversation", c, creds, <<>>, tgf)

\* lines 637-639; tgf 4: the send_message of the revoke report raises
revoke_authz_inline(c, tgf) ==
    /\ UNCHANGED <<bot_data, links, hist, hpc>>
    /\ IF tgf = 4
       THEN Done(c, conv[c], chat_data[c], prompt[c], delete_credentials(creds, c),
                 EvX("revoke_authz_inline", "button", c, <<>>, "TelegramError", <<>>, <<>>))
       ELSE Finish("revoke_authz_inline", c, delete_credentials(creds, c),
                   << Tg("send_message", c, TG_REVOKE_AUTHZ, 0) >>, tgf)

\* ------------------------------------------------------------------
\* Direct commands (lines 222-450): CommandHandlers outside conv_handler.
\* They return None, never read context.chat_data, and an exception they
\* raise is logged by the dispatcher.
\* ------------------------------------------------------------------
\* Variant: the command ends the conversation, as a fallback returning
\* ConversationHandler.END would
Command_end(c, db, ev) ==
    /\ UNCHANGED <<bot_data, links, hist, hpc>>
    /\ Done(c, STATE_END, EmptyData, prompt[c], db, ev)

\* Outcome of a direct command: only the credential table may be written.
Command(c, db, ev) ==
    /\ UNCHANGED <<bot_data, links, hist, hpc>>
    /\ Done(c, conv[c], chat_data[c], prompt[c], db, ev)

\* context.bot.send_message(chat_id, text) as the handler's last statement;
\* tgf 1: Telegram raises.  Telegram refuses an empty text with BadRequest.
Reply(op, c, args, db, gw, text, tgf) ==
    IF tgf = 1 \/ text = <<>>
    THEN Command(c, db, EvC(op, c, args,
                            IF tgf = 1 THEN "TelegramError" ELSE "BadRequest", gw, <<>>))
    ELSE Command(c, db, EvC(op, c, args, "", gw, << Tg("send_message", c, text, 0) >>))

\* Variant: no caller catches HttpError
Provider_uncaught(op, c, args, call, text, catches, refresh, gwx, tgf) ==
    /\ credentials_exists(c) => Refreshable(c, refresh)
    /\ IF ~credentials_exists(c) \/ refresh = "RefreshError"
       THEN Command(c, creds, EvC(op, c, args,
                                  IF ~credentials_exists(c) THEN "DoesNotExist"
                                  ELSE "RefreshError", <<>>, <<>>))
       ELSE LET db == str_to_credentials(creds, c, refresh) IN
            IF gwx = ""
            THEN Reply(op, c, args, db, <<call>>, text, tgf)
            ELSE Command(c, db, EvC(op, c, args, gwx, <<Ended(call, gwx)>>, <<>>))

\* The helpers __show_calendars ... __delete_share (lines 242-312) and the
\* reply of their caller: db.get_credentials raises DoesNotExist when the
\* chat has no row; str_to_credentials may refresh, and the refresh may
\* raise; the Gateway call ends as gwx says: the caller catches HttpError
\* (catches) or not, and no caller catches another exception.
Provider(op, c, args, call, text, catches, refresh, gwx, tgf) ==
    /\ credentials_exists(c) => Refreshable(c, refresh)
    /\ IF ~credentials_exists(c) \/ refresh = "RefreshError"
       THEN Command(c, creds, EvC(op, c, args,
                                  IF ~credentials_exists(c) THEN "DoesNotExist"
                                  ELSE "RefreshError", <<>>, <<>>))
       ELSE LET db == str_to_credentials(creds, c, refresh) IN
            IF gwx = ""
            THEN Reply(op, c, args, db, <<call>>, text, tgf)
            ELSE IF catches /\ gwx = "HttpError"
                 THEN Reply(op, c, args, db, <<Failed(call)>>, TG_CALENDAR_NOT_FOUND, tgf)
                 ELSE Command(c, db, EvC(op, c, args, gwx, <<Ended(call, gwx)>>, <<>>))

\* the /revoke_authz command, lines 442-450
revoke_authz(c, tgf) ==
    Reply("revoke_authz", c, <<>>, delete_credentials(creds, c), <<>>, TG_REVOKE_AUTHZ, tgf)

help(c, tgf) == Reply("help", c, <<>>, creds, <<>>, TG_HELP, tgf)

\* show_calendars, lines 327-337: no argument check, no except clause
show_calendars(c, refresh, gwx, tgf) ==
    Provider("show_calendars", c, <<>>, Gw("get_calendars", <<>>, <<>>, ""),
             CalendarLines(CalendarList), FALSE, refresh, gwx, tgf)

\* show_share, lines 340-363; the KeyError of line 275 and that of
\* get_acl_users are no HttpError and are not caught
show_share(c, args, refresh, acl, gwx, tgf) ==
    IF Len(args) # 1
    THEN Reply("show_share", c, args, creds, <<>>, TG_INVALID_ARG_NUM(1), tgf)
    ELSE IF credentials_exists(c) /\ refresh # "RefreshError" /\ gwx = ""
            /\ UnknownRole(acl)
         THEN /\ Refreshable(c, refresh)
              /\ Command(c, str_to_credentials(creds, c, refresh),
                         EvC("show_share", c, args, "KeyError",
                             <<Gw("get_acl_users", args[1], <<>>, "")>>, <<>>))
         ELSE Provider("show_share", c, args, Gw("get_acl_users", args[1], <<>>, ""),
                       ACL_LISTING(acl), TRUE, refresh, gwx, tgf)

\* Variant: the role is validated, the e-mail is not
add_share_any_email(c, args, refresh, gwx, tgf) ==
    IF Len(args) # 3
    THEN Reply("add_share", c, args, creds, <<>>, TG_INVALID_ARG_NUM(3), tgf)
    ELSE LET calendar == args[1]
             email == args[2]
             role == args[3]
         IN
         IF Head(role) \notin DOMAIN GCAL_MAP
         THEN Reply("add_share", c, args, creds, <<>>, TG_ROLE_INVALID, tgf)
         ELSE Provider("add_share", c, args,
                       Gw("add_acl_user", calendar, email, Head(role)),
                       TG_USER_ADDED(email, Head(role), calendar),
                       TRUE, refresh, gwx, tgf)

\* add_share, lines 366-405
add_share(c, args, refresh, gwx, tgf) ==
    IF Len(args) # 3
    THEN Reply("add_share", c, args, creds, <<>>, TG_INVALID_ARG_NUM(3), tgf)
    ELSE LET calendar == args[1]
             email == args[2]
             role == args[3]
         IN
         IF ~validate_email(email)
         THEN Reply("add_share", c, args, creds, <<>>, TG_EMAIL_INVALID, tgf)
         ELSE IF Head(role) \notin DOMAIN GCAL_MAP
              THEN Reply("add_share", c, args, creds, <<>>, TG_ROLE_INVALID, tgf)
              ELSE Provider("add_share", c, args,
                            Gw("add_acl_user", calendar, email, Head(role)),
                            TG_USER_ADDED(email, Head(role), calendar),
                            TRUE, refresh, gwx, tgf)

\* delete_share, lines 408-439; the KeyError of delete_acl_user is no
\* HttpError and is not caught
delete_share(c, args, refresh, gwx, tgf) ==
    IF Len(args) # 2
    THEN Reply("delete_share", c, args, creds, <<>>, TG_INVALID_ARG_NUM(2), tgf)
    ELSE LET calendar == args[1]
             email == args[2]
         IN
         IF ~validate_email(email)
         THEN Reply("delete_share", c, args, creds, <<>>, TG_EMAIL_INVALID, tgf)
         ELSE Provider("delete_share", c, args,
                       Gw("delete_acl_user", calendar, email, ""),
                       TG_USER_DELETED(email, calendar), TRUE, refresh, gwx, tgf)

\* ------------------------------------------------------------------
\* Dispatch layer: the ConversationHandler of start_bot (lines 717-768)
\* ------------------------------------------------------------------
\* CallbackQueryHandler(handler, pattern): exact is the trailing "$"
H(name, exact) == [name |-> name, exact |-> exact]

calendar_selection_handlers ==
    << H(N_select_calendar_inline, FALSE),
       H(N_revoke_authz_inline, FALSE),
       H(N_finish_conversation, TRUE) >>

action_selection_handlers ==
    << H(N_show_share_inline, FALSE),
       H(N_add_share_inline, FALSE),
       H(N_delete_share_inline, FALSE),
       H(N_select_calendar_inline, FALSE),
       H(N_finish_conversation, TRUE),
       H(N_start, TRUE) >>

\* the CallbackQueryHandlers of add_share_handlers and delete_share_handlers
email_handlers ==
    << H(N_select_calendar_inline, FALSE),
       H(N_finish_conversation, TRUE),
       H(N_start, TRUE) >>

add_share_role_handlers ==
    << H(N_add_share_inline_freebusy, FALSE),
       H(N_add_share_inline_reader, FALSE),
       H(N_add_share_inline_writer, FALSE),
       H(N_select_calendar_inline, FALSE),
       H(N_finish_conversation, TRUE),
       H(N_start, TRUE) >>

StateHandlers(st) ==
    CASE st = STATE_CALENDAR_SELECTION -> calendar_selection_handlers
      [] st = STATE_ACTION_SELECTION -> action_selection_handlers
      [] st = STATE_ADD_SHARE -> email_handlers
      [] st = STATE_ADD_SHARE_ROLE -> add_share_role_handlers
      [] st = STATE_DELETE_SHARE -> email_handlers
      [] OTHER -> <<>>

Matches(h, data) ==
    IF h.exact THEN MatchExact(h.name, data) ELSE MatchPrefix(h.name, data)

\* The handler a callback query with this data is routed to in state st:
\* the first one whose pattern matches; <<>> when none does.
Route(st, data) ==
    LET hs == StateHandlers(st)
        hit == {i \in 1..Len(hs) : Matches(hs[i], data)}
    IN IF hit = {} THEN <<>>
       ELSE hs[CHOOSE i \in hit : \A j \in hit : i <= j].name

\* the handlers whose buttons carry an argument behind the delimiter
ArgHandlers == {N_select_calendar_inline, N_show_share_inline, N_add_share_inline,
                N_delete_share_inline, N_add_share_inline_freebusy,
                N_add_share_inline_reader, N_add_share_inline_writer}

\* The dispatcher thread takes the next update while the updater is
\* running, the process lives and no handler is in progress.
Engine(A) == running /\ mpc # "killed" /\ hpc = NoHandler /\ A /\ UNCHANGED <<handoffVars, lifeVars>>

\* The user presses button i of the chat's k-th keyboard message: the
\* callback query carries the callback_data the button holds at that moment.
Press(c, k, i) ==
    /\ k \in 1..Len(prompt[c])
    /\ prompt[c][k].exists
    /\ i \in 1..Len(prompt[c][k].kb)
    /\ Len(inbox[c]) < MaxPending
    /\ inbox' = [inbox EXCEPT ![c] = Append(@, Query(2 * k, prompt[c][k].kb[i]))]
    /\ last' = EvX("press", "user", c, prompt[c][k].kb[i], "", <<>>, <<>>)
    /\ UNCHANGED <<creds, bot_data, handoffVars, lifeVars, hpc, conv, chat_data, prompt,
                   links, hist>>

\* The user sends a text message that is no command.
Type(c, text) ==
    /\ Len(inbox[c]) < MaxPending
    /\ inbox' = [inbox EXCEPT ![c] = Append(@, Typed(text))]
    /\ last' = EvX("type", "user", c, text, "", <<>>, <<>>)
    /\ UNCHANGED <<creds, bot_data, handoffVars, lifeVars, hpc, conv, chat_data, prompt,
                   links, hist>>

\* No handler of the chat's state matches the update: it is dropped.
Unhandled(c, data) ==
    /\ last' = EvX("unhandled", "dropped", c, data, "", <<>>, <<>>)
    /\ UNCHANGED <<creds, bot_data, links, hist, hpc, conv, chat_data, prompt>>

\* "/start" typed: entry point when no conversation is active, fallback
\* otherwise.  A command is handled after the updates that arrived before it.
StartCommand(c) ==
    /\ inbox[c] = <<>>
    /\ UNCHANGED inbox
    /\ \E u \in MsgIds, refresh \in Refreshes, gwOk \in BOOLEAN, tgf \in 0..1 :
            Engine(start(c, "command", 0, u, u + 1, refresh, gwOk, tgf))

\* start without a credential row goes on after line 173; Updater.stop()
\* waits for the handler, os._exit does not
StartStep(c) ==
    /\ mpc # "killed"
    /\ \/ \E tkn \in Tokens : start_link(c, tkn)
       \/ \E tgf \in 0..1 : start_send(c, tgf)
    /\ UNCHANGED <<handoffVars, lifeVars, inbox>>

\* CommandHandler(m.__name__, m) for the registered methods, lines 771-773: a
\* command is handled after the updates that arrived before it
DirectCommand(c, A) == inbox[c] = <<>> /\ UNCHANGED inbox /\ Engine(A)

RevokeCommand(c) == \E tgf \in 0..1 : DirectCommand(c, revoke_authz(c, tgf))

\* a callback query from message m with this data, routed by the handler
\* list of the chat's state
Button(c, m, data) ==
    LET h == IF conv[c] \in ActiveStates THEN Route(conv[c], data) ELSE <<>> IN
        \/ /\ h = <<>>
           /\ Engine(Unhandled(c, data))
        \/ /\ h = N_start
           /\ \E refresh \in Refreshes, gwOk \in BOOLEAN, tgf \in 0..2 :
                Engine(start(c, "button", m, 0, 0, refresh, gwOk, tgf))
        \/ /\ h = N_select_calendar_inline
           /\ \E tgf \in 0..1 : Engine(select_calendar_inline(c, m, data, tgf))
        \/ /\ h = N_show_share_inline
           /\ \E refresh \in Refreshes, acl \in Acls, gwx \in AclOutcomes, tgf \in 0..1 :
                Engine(show_share_inline(c, m, data, refresh, acl, gwx, tgf))
        \/ /\ h = N_add_share_inline
           /\ \E tgf \in 0..1 : Engine(add_share_inline(c, m, data, tgf))
        \/ /\ h = N_delete_share_inline
           /\ \E tgf \in 0..1 : Engine(delete_share_inline(c, m, data, tgf))
        \/ /\ h = N_add_share_inline_freebusy
           /\ \E refresh \in Refreshes, gwOk \in BOOLEAN, tgf \in 0..1 :
                Engine(add_share_inline_freebusy(c, data, refresh, gwOk, tgf))
        \/ /\ h = N_add_share_inline_reader
           /\ \E refresh \in Refreshes, gwOk \in BOOLEAN, tgf \in 0..1 :
                Engine(add_share_inline_reader(c, data, refresh, gwOk, tgf))
        \/ /\ h = N_add_share_inline_writer
           /\ \E refresh \in Refreshes, gwOk \in BOOLEAN, tgf \in 0..1 :
                Engine(add_share_inline_writer(c, data, refresh, gwOk, tgf))
        \/ /\ h = N_revoke_authz_inline
           /\ \E tgf \in 0..4 : Engine(revoke_authz_inline(c, tgf))
        \/ /\ h = N_finish_conversation
           /\ \E tgf \in 0..3 : Engine(finish_conversation(c, tgf))

\* a text message that is no command: MessageHandler(Filters.text & ~Filters.command)
TextInput(c, text) ==
    \/ /\ conv[c] = STATE_ADD_SHARE
       /\ \E tgf \in 0..2 : Engine(add_share_inline_email(c, text, tgf))
    \/ /\ conv[c] = STATE_DELETE_SHARE
       /\ \E refresh \in Refreshes, gwx \in AclOutcomes, tgf \in 0..2 :
            Engine(delete_share_inline_email(c, text, refresh, gwx, tgf))
    \/ /\ conv[c] \notin {STATE_ADD_SHARE, STATE_DELETE_SHARE}
       /\ Engine(Unhandled(c, text))

\* The dispatcher handles the chat's oldest pending update.
Update(c) ==
    /\ inbox[c] # <<>>
    /\ inbox' = [inbox EXCEPT ![c] = Tail(@)]
    /\ LET q == Head(inbox[c]) IN
       IF q.msg = 0 THEN TextInput(c, q.data) ELSE Button(c, q.msg, q.data)

\* context.args of a direct command: the words after the command
Words == [calendar |-> <<"cal1">>, email |-> <<"u", "@", "d">>, text |-> <<"bad">>,
          role |-> <<READER>>, owner |-> <<"owner">>]
CommandArgs ==
    { <<Words.calendar>>,
      <<Words.calendar, Words.email>>,
      <<Words.calendar, Words.text>>,
      <<Words.calendar, Words.email, Words.role>>,
      <<Words.calendar, Words.text, Words.role>>,
      <<Words.calendar, Words.email, Words.owner>>,
      <<Words.calendar, Words.text, Words.owner>> }

HelpCommand(c) == \E tgf \in 0..1 : DirectCommand(c, help(c, tgf))

ShowCalendarsCommand(c) ==
    \E refresh \in Refreshes, gwx \in GwOutcomes, tgf \in 0..1 :
        DirectCommand(c, show_calendars(c, refresh, gwx, tgf))

ShowShareCommand(c) ==
    \E args \in CommandArgs, refresh \in Refreshes, acl \in Acls,
       gwx \in AclOutcomes, tgf \in 0..1 :
        DirectCommand(c, show_share(c, args, refresh, acl, gwx, tgf))

AddShareCommand(c) ==
    \E args \in CommandArgs, refresh \in Refreshes, gwx \in GwOutcomes, tgf \in 0..1 :
        DirectCommand(c, add_share(c, args, refresh, gwx, tgf))

DeleteShareCommand(c) ==
    \E args \in CommandArgs, refresh \in Refreshes, gwx \in AclOutcomes, tgf \in 0..1 :
        DirectCommand(c, delete_share(c, args, refresh, gwx, tgf))

\* ------------------------------------------------------------------
\* Specifications
\* ------------------------------------------------------------------
Init ==
    /\ creds \in [Chats -> {NoCred} \cup Blobs]
    /\ bot_data = [t \in Tokens |-> NoChat]
    /\ queue = [p \in Producers |-> <<>>]
    /\ dpc = "get"
    /\ cur = Shutdown
    /\ dchat = NoChat
    /\ mpc = "idle"
    /\ running = TRUE
    /\ event = FALSE
    /\ spc = "none"
    /\ hpc = NoHandler
    /\ inbox = [c \in Chats |-> <<>>]
    /\ conv = [c \in Chats |-> STATE_END]
    /\ chat_data = [c \in Chats |-> EmptyData]
    /\ prompt = [c \in Chats |-> <<>>]
    /\ sent = <<>>
    /\ processed = <<>>
    /\ sigs = 0
    /\ links = 0
    /\ hist = [t \in Tokens |-> NoHist]
    /\ last = Ev("init", "", NoChat, TRUE, <<>>, <<>>)

Web == \E state \in Tokens, error \in BOOLEAN, grant \in GrantOutcomes, b \in Blobs :
            oauth2callback(state, error, grant, b)

Lifecycle ==
    idle \/ idle_return \/ join \/ SignalDefault \/ KeyboardInterrupt \/ signal_handler

\* what the user of a chat does
User(c) ==
    \/ \E k \in 1..Len(prompt[c]) : \E i \in 1..Len(prompt[c][k].kb) : Press(c, k, i)
    \/ \E text \in Texts : Type(c, text)

Dialogue(c) ==
    \/ StartCommand(c)
    \/ StartStep(c)
    \/ RevokeCommand(c)
    \/ User(c)
    \/ Update(c)

\* the direct commands of a chat other than /revoke_authz
Commands(c) ==
    \/ HelpCommand(c)
    \/ ShowCalendarsCommand(c)
    \/ ShowShareCommand(c)
    \/ AddShareCommand(c)
    \/ DeleteShareCommand(c)

Next ==
    \/ Web
    \/ \E m \in ForeignMessages : foreign_put(m)
    \/ webauth_callback
    \/ Lifecycle
    \/ \E c \in Chats : Dialogue(c) \/ Commands(c)

\* The whole system: every chat converses and sends commands, the web
\* process serves any request, other objects are put on the queue, signals
\* arrive.
Spec == Init /\ [][Next]_vars

\* --- Handoff: the correlation of authorization outcomes to chats ---
\* The database starts empty; chats without a credential ask for links with
\* /start and chats revoke with /revoke_authz, while the web process serves
\* callbacks and webauth_callback drains the queue.  No signal arrives.
InitFresh == Init /\ \A c \in Chats : creds[c] = NoCred

LinkRequest(c) == (~credentials_exists(c) /\ StartCommand(c)) \/ StartStep(c)

NextHandoff ==
    \/ Web
    \/ webauth_callback
    \/ \E c \in Chats : LinkRequest(c) \/ RevokeCommand(c)

SpecHandoff == InitFresh /\ [][NextHandoff]_vars

\* Limits of the specifications of one chat's conversation: the link
\* requests of the chat draw one OAuth2 state, at most one of the chat's
\* keyboard messages is still there, at most one update is pending.
OneToken == last'.op = "register" => last'.arg = <<"t1">>
OneKeyboard == Cardinality({k \in 1..Len(prompt'[1]) : prompt'[1][k].exists}) <= 1
OnePending == Len(inbox'[1]) <= 1

\* --- Credentials: the life of the row of chat 1 ---
\* Chat 1 asks for links, the outcomes are handed over and stored, and the
\* chat uses the part of the dialogue that reads, refreshes or deletes its
\* row: start, the calendar and show-share buttons, and revoke by button
\* and by command, with handlers that return.
CredentialButtons ==
    { N_start, N_revoke_authz_inline,
      Payload(N_select_calendar_inline, CalendarList[1]),
      Payload(N_show_share_inline, CalendarList[1]) }

NextCredentials ==
    \/ Web
    \/ webauth_callback
    \/ (StartCommand(1) /\ last'.ok /\ OneKeyboard)
    \/ (StartStep(1) /\ last'.ok)
    \/ (RevokeCommand(1) /\ last'.ok)
    \/ \E k \in 1..Len(prompt[1]) : \E i \in 1..Len(prompt[1][k].kb) :
            Press(1, k, i) /\ prompt[1][k].kb[i] \in CredentialButtons /\ OnePending
    \/ (Update(1) /\ last'.ok)

SpecCredentials == InitFresh /\ [][NextCredentials]_vars

\* --- Channel: webauth_callback as the consumer of ipc_queue ---
\* Besides the outcomes of oauth2callback for the link of chat 1, the queue
\* receives objects of other shapes.
NextChannel ==
    \/ Web
    \/ webauth_callback
    \/ LinkRequest(1)
    \/ \E m \in ForeignMessages : foreign_put(m)

SpecChannel == InitFresh /\ [][NextChannel]_vars

\* --- Shutdown: the queue, its consumer and the process lifecycle ---
\* As SpecHandoff with one chat asking for links, plus the main thread and
\* the termination signals.
NextShutdown ==
    \/ Web
    \/ webauth_callback
    \/ Lifecycle
    \/ LinkRequest(1)

SpecShutdown == InitFresh /\ [][NextShutdown]_vars

\* Threads of a live process keep being scheduled: the webauth_callback
\* thread takes its next step whenever it is not blocked in ipc_queue.get(),
\* the main thread when event.wait() or join() can return or when it is
\* inside _signal_handler, and the dispatcher thread when it is inside a
\* handler.
SpecShutdownFair ==
    /\ SpecShutdown
    /\ WF_vars(webauth_callback)
    /\ WF_vars(idle \/ idle_return \/ join)
    /\ WF_vars(signal_handler_stopped \/ signal_handler_put \/ signal_handler_set)
    /\ WF_vars(StartStep(1))

\* --- Dialogue: the conversation of one chat ---
\* Chat 1 converses (commands, buttons, texts); it starts with or without a
\* stored credential.  Conversations of different chats share no state but
\* the tables keyed by chat id.
InitDialogue ==
    /\ Init
    /\ creds[1] \in {NoCred, Blob("b1")}
    /\ creds[2] = NoCred

NextDialogue == Dialogue(1) /\ OneToken /\ OneKeyboard

SpecDialogue == InitDialogue /\ [][NextDialogue]_vars

\* --- Keyboards: the keyboard messages of one chat ---
\* Chat 1 has a credential, which stays as it is (no refresh, no revoke),
\* and presses the buttons of every keyboard message it was sent and that
\* is still there; handlers return or are ended by a Telegram error.
InitKeyboards == InitDialogue /\ creds[1] = Blob("b1")

NextKeyboards ==
    /\ \/ StartCommand(1)
       \/ \E k \in 1..Len(prompt[1]) : \E i \in 1..Len(prompt[1][k].kb) : Press(1, k, i)
       \/ Update(1)
    /\ creds' = creds
    /\ last'.exc \in {"", "TelegramError", "BadRequest"}

SpecKeyboards == InitKeyboards /\ [][NextKeyboards]_vars

\* --- Commands: the direct commands of one chat ---
\* Chat 1 sends direct commands in every conversation state.  The dialogue
\* that brings it there runs with handlers that return and with a
\* credential present when start is handled.
NextCommands ==
    \/ Commands(1)
    \/ (Dialogue(1) /\ last'.ok /\ hpc' = NoHandler /\ OneKeyboard /\ OnePending)

SpecCommands == InitDialogue /\ [][NextCommands]_vars

\* --- Nominal: the conversation of one chat when no call fails ---
\* As SpecDialogue with every Telegram and Gateway call returning: no
\* handler is ended by an exception of the network, of Telegram or of
\* Google.
NoCallFailed ==
    /\ last'.exc \notin {"TelegramError", "BadRequest", "HttpError", "RefreshError"}
    /\ \A i \in 1..Len(last'.gw) : ~last'.gw[i].raised

NextNominal == Dialogue(1) /\ NoCallFailed /\ OneToken

SpecNominal == InitDialogue /\ [][NextNominal]_vars

\* ------------------------------------------------------------------
\* Properties
\* ------------------------------------------------------------------
\* Steps of the webauth_callback thread, told by its position
PopStep == dpc = "pop" /\ dpc' # "pop"
DenyStep == dpc = "deny" /\ dpc' # "deny"
CreateStep == dpc = "create" /\ dpc' # "create"
NotifyStep == dpc = "notify" /\ dpc' # "notify"
\* The step is the handling of the chat's oldest pending update,
\* Head(inbox[c]); HandledQuery: that update is a callback query.
Handled(c) == inbox[c] # <<>> /\ inbox'[c] = Tail(inbox[c])
HandledQuery(c) == Handled(c) /\ Head(inbox[c]).msg # 0
\* the message with this id as the step leaves it, NoPrompt when there is none
After(c, id) ==
    IF id > 0 /\ id % 2 = 0 /\ id \div 2 <= Len(prompt'[c])
    THEN prompt'[c][id \div 2]
    ELSE NoPrompt
\* C1 (at-most-once consumption): for an OAuth2 state that was registered
\* once, at most one lookup succeeds; the state is in bot_data exactly
\* until that lookup; a lookup that finds nothing comes only after the
\* successful one; and no more than one notification and one credential
\* write are made for it.  So the same outcome message got twice gives one
\* successful consume and one KeyError that is only logged.
C1_AtMostOnce ==
    \A t \in Tokens : hist[t].reg = 1 =>
        /\ hist[t].hit <= 1
        /\ (hist[t].hit = 1 <=> bot_data[t] = NoChat)
        /\ (hist[t].late > 0 => hist[t].hit = 1)
        /\ hist[t].note <= hist[t].hit
        /\ hist[t].write <= hist[t].hit
\* the same Granted message was put twice and both copies were handled
C1_Witness ==
    \E t \in Tokens :
        /\ Len(sent) = 2 /\ sent[1] = sent[2] /\ sent[1].state = t
        /\ sent[1].credentials # NoCred
        /\ processed = sent /\ dpc = "get"
        /\ hist[t].reg = 1 /\ hist[t].hit = 1 /\ hist[t].late = 1
        /\ hist[t].note = 1 /\ hist[t].write = 1
\* C2 as stated (Scenario B in any reachable state): handling a message with
\* credentials B for a registered state of chat C (a state no other request
\* was given) removes the state, leaves the row of C holding B, and sends C
\* "authorization complete".
C2_Original ==
    [][ /\ (PopStep /\ dpc' = "create") =>
              /\ dchat' = bot_data[cur.state]
              /\ bot_data'[cur.state] = NoChat
        /\ (CreateStep /\ last'.ok /\ hist[cur.state].reg = 1) =>
              creds'[dchat] = cur.credentials
        /\ (NotifyStep /\ last'.ok) =>
              last'.tg = << Tg("send_message", dchat, TG_AUTH_COMPLETE, 0) >>
      ]_vars
\* C2 amended: handling a message with credentials B for a registered state
\* of chat C removes the state; the row of C holds B afterwards if C had no
\* row, and is left as it was if C had one; no other row changes; and C is
\* sent "authorization complete".
C2_GrantedHandoff ==
    [][ /\ (PopStep /\ dpc' = "create") =>
              /\ dchat' = bot_data[cur.state]
              /\ dchat' # NoChat
              /\ bot_data'[cur.state] = NoChat
        /\ (CreateStep /\ last'.ok) =>
              /\ dpc' = "notify"
              /\ creds'[dchat] = IF creds[dchat] = NoCred THEN cur.credentials
                                 ELSE creds[dchat]
              /\ \A c \in Chats \ {dchat} : creds'[c] = creds[c]
        /\ (NotifyStep /\ last'.ok) =>
              /\ dpc' = "get"
              /\ creds' = creds
              /\ last'.tg = << Tg("send_message", dchat, TG_AUTH_COMPLETE, 0) >>
      ]_vars
\* credentials arrived for a chat that had a row: the row is not the new one
C2_Witness ==
    /\ last.op = "create" /\ last.ok /\ dpc = "notify"
    /\ creds[dchat] # NoCred
    /\ creds[dchat] # cur.credentials
\* C3 as stated (dispatcher resilience): the webauth_callback thread ends
\* only by getting the shutdown message; a failing database write or
\* notification does not end it.
C3_OnlyShutdownStops ==
    dpc \in {"done", "crashed"} =>
        /\ processed # <<>>
        /\ processed[Len(processed)] = Shutdown
\* C4 as stated (shutdown determinism): once a shutdown message has been put
\* after N other messages, the thread gets messages in put order, gets
\* nothing after that shutdown message, and when it has ended it has got
\* exactly those N messages and the shutdown message.
C4_ShutdownDeterminism ==
    LET stops == {i \in 1..Len(sent) : sent[i] = Shutdown} IN
    stops # {} =>
        LET first == CHOOSE i \in stops : \A j \in stops : i <= j IN
        /\ Len(processed) <= first
        /\ processed = SubSeq(sent, 1, Len(processed))
        /\ dpc \in {"done", "crashed"} => Len(processed) = first
\* C5 as stated (session exclusivity), for a chat whose credentials are
\* stored and whose keyboard message is recorded in chat_data: "/start" typed
\* while the chat's conversation is in an active state leaves the state,
\* chat_data and the keyboard message as they were, and all it does is reply
\* pointing at the keyboard message.
C5_SessionExclusivity ==
    [][ \A c \in Chats :
          ( /\ conv[c] \in ActiveStates
            /\ credentials_exists(c)
            /\ chat_data[c].inline_msg # 0
            /\ last'.op = "start" /\ last'.via = "command" /\ last'.chat = c ) =>
              /\ conv'[c] = conv[c]
              /\ chat_data'[c] = chat_data[c]
              /\ prompt'[c] = prompt[c]
              /\ last'.ok => last'.tg = << Tg("send_message", c, TG_KEYBOARD_ACTIVE,
                                               chat_data[c].inline_msg) >>
      ]_vars
\* C6 as stated (session destruction): a chat whose conversation is in the
\* terminal state has no initial_msg, inline_msg or calendar_name.
C6_SessionDestruction ==
    \A c \in Chats : conv[c] = STATE_END => chat_data[c] = EmptyData
\* C7 (email gate): a text handled in STATE_ADD_SHARE or STATE_DELETE_SHARE
\* that is not an e-mail address leaves the state and chat_data as they were,
\* calls no Calendar Gateway function, and the keyboard message then shows
\* the "not an e-mail" prompt; the state changes only on a valid address, to
\* STATE_ADD_SHARE_ROLE when adding and STATE_ACTION_SELECTION when deleting.
C7_EmailGate ==
    [][ \A c \in Chats :
          ( /\ conv[c] \in {STATE_ADD_SHARE, STATE_DELETE_SHARE}
            /\ last'.via = "text" /\ last'.chat = c ) =>
              /\ ~validate_email(last'.arg) =>
                    /\ conv'[c] = conv[c]
                    /\ chat_data'[c] = chat_data[c]
                    /\ creds' = creds
                    /\ last'.gw = <<>>
                    /\ last'.ok =>
                          /\ After(c, chat_data[c].inline_msg).exists
                          /\ After(c, chat_data[c].inline_msg).text = PROMPT_NOT_EMAIL
              /\ conv'[c] # conv[c] =>
                    /\ validate_email(last'.arg)
                    /\ last'.ok
                    /\ conv'[c] = IF conv[c] = STATE_ADD_SHARE
                                  THEN STATE_ADD_SHARE_ROLE
                                  ELSE STATE_ACTION_SELECTION
      ]_vars
\* a text that is no address was handled while adding a share
C7_Witness ==
    /\ last.op = "add_share_inline_email" /\ last.ok
    /\ ~validate_email(last.arg)
    /\ conv[last.chat] = STATE_ADD_SHARE
    /\ chat_data[last.chat].calendar_name # NoName
    /\ Message(last.chat, chat_data[last.chat].inline_msg).text = PROMPT_NOT_EMAIL
\* C8 (Scenario C): handling a message without credentials for a registered
\* state of chat C removes the state, changes no row of the credential
\* table, sends C "authorization not granted", and the thread goes back to
\* ipc_queue.get().
C8_DeniedHandoff ==
    [][ /\ (PopStep /\ dpc' = "deny") =>
              /\ dchat' = bot_data[cur.state]
              /\ dchat' # NoChat
              /\ bot_data'[cur.state] = NoChat
              /\ creds' = creds
        /\ DenyStep =>
              /\ creds' = creds
              /\ bot_data' = bot_data
              /\ last'.ok =>
                    /\ dpc' = "get"
                    /\ last'.tg = << Tg("send_message", dchat, TG_AUTH_FAILED, 0) >>
      ]_vars
\* a denial was handled for a chat that has credentials: they are still there
C8_Witness ==
    /\ last.op = "deny" /\ last.ok /\ dpc = "get"
    /\ last.tg = << Tg("send_message", last.chat, TG_AUTH_FAILED, 0) >>
    /\ creds[last.chat] # NoCred
\* C9 (stale correlation): a message whose state is not in bot_data (never
\* registered, or consumed before) makes the thread send nothing, write no
\* credentials, leave bot_data as it was, and go back to ipc_queue.get().
C9_StaleCorrelation ==
    [][ (PopStep /\ bot_data[cur.state] = NoChat) =>
            /\ dpc' = "get"
            /\ bot_data' = bot_data
            /\ creds' = creds
            /\ queue' = queue
            /\ last'.ok
            /\ last'.tg = <<>>
            /\ \A t \in Tokens : /\ hist'[t].note = hist[t].note
                                 /\ hist'[t].write = hist[t].write
      ]_vars
\* a message for a state consumed before was handled, and the thread went on
C9_Witness ==
    /\ last.op = "not_found" /\ dpc = "get"
    /\ hist[last.arg[1]].hit = 1
    /\ hist[last.arg[1]].late = 1
\* C10 as stated (cancellation liveness): after a termination signal was
\* delivered to the Telegram process, the process comes to its end: the
\* webauth_callback thread ends, join() returns and start_bot returns, or
\* the process is ended at once.
C10_CancellationLiveness ==
    (sigs > 0) ~> (mpc \in {"exited", "killed"})
\* C10 for the signals that arrive once idle() has installed the handler
C10_Handled ==
    (spc = "stop") ~> (mpc \in {"exited", "killed"})
\* C11 as stated (duplicate registration): start registering a state that is
\* already a key of bot_data leaves the chat stored under that key as it was.
C11_DuplicateRegistration ==
    [][ (last'.op = "register") =>
            \A t \in Tokens : bot_data[t] # NoChat => bot_data'[t] = bot_data[t]
      ]_vars
\* C12 as stated (correct correlation): a state that is a key of bot_data
\* stands for exactly one pending link request, that of the chat stored
\* under it; a state that is no key stands for none.
C12_CorrectCorrelation ==
    \A t \in Tokens :
        IF bot_data[t] # NoChat
        THEN hist[t].by = {bot_data[t]}
        ELSE hist[t].by = {}
\* C13 as stated (state-machine closure): a button whose event the state
\* does not define (a role button outside AwaitShareRole, an action button
\* outside SelectAction) is a no-op: the conversation state, the session
\* fields, the keyboard messages and the credential table stay as they were
\* and neither the Gateway nor Telegram is called.
C13_StateMachineClosure ==
    [][ \A c \in Chats :
          LET kind == Split(Head(inbox[c]).data)[1]
              actions == {N_show_share_inline, N_add_share_inline, N_delete_share_inline}
              roles == {N_add_share_inline_freebusy, N_add_share_inline_reader,
                        N_add_share_inline_writer}
              defined ==
                  CASE conv[c] = STATE_ACTION_SELECTION -> actions
                    [] conv[c] = STATE_ADD_SHARE_ROLE -> roles
                    [] OTHER -> {}
          IN (/\ HandledQuery(c)
              /\ kind \in (actions \cup roles) \ defined)
             => /\ conv'[c] = conv[c]
                /\ chat_data'[c] = chat_data[c]
                /\ prompt'[c] = prompt[c]
                /\ creds' = creds
                /\ last'.chat = c
                /\ last'.gw = <<>>
                /\ last'.tg = <<>>
      ]_vars
\* C14 as stated (re-entrant start): from every non-terminal state the start
\* button, when start returns, leaves the chat in SelectCalendar with the
\* message whose button was pressed showing the calendar list.
C14_ReentrantStart ==
    [][ \A c \in Chats :
          LET pressed == IF hpc.chat = c THEN hpc.msg ELSE Head(inbox[c]).msg IN
          (/\ hpc.chat = c \/ HandledQuery(c)
           /\ conv[c] \in ActiveStates
           /\ last'.op = "start"
           /\ last'.via = "button"
           /\ last'.chat = c
           /\ last'.ok)
          => /\ conv'[c] = STATE_CALENDAR_SELECTION
             /\ After(c, pressed) = Shown(PROMPT_INITIAL_MENU, initial_keyboard)
      ]_vars
\* C15 (finish is always available): every non-terminal state routes the
\* finish button to finish_conversation, and in a session that holds its
\* message ids the handler empties the session fields; when it returns, the
\* three Telegram calls were made on the session's messages (keyboard
\* removed, keyboard message deleted, invoking message deleted), the
\* keyboard message is gone and the chat is in Terminal.  A /start handled
\* in Terminal with empty fields and a credential opens a fresh session.
C15_FinishAvailable ==
    [][ \A c \in Chats :
          /\ \A st \in ActiveStates :
                Route(st, N_finish_conversation) = N_finish_conversation
          /\ (/\ last'.op = "finish_conversation"
              /\ last'.chat = c
              /\ chat_data[c].inline_msg # 0
              /\ chat_data[c].initial_msg # 0)
             => /\ conv[c] \in ActiveStates
                /\ chat_data'[c] = EmptyData
                /\ last'.gw = <<>>
                /\ creds' = creds
                /\ last'.ok =>
                      /\ conv'[c] = STATE_END
                      /\ After(c, chat_data[c].inline_msg) = NoPrompt
                      /\ last'.tg =
                           << Tg("edit_message_reply_markup", c, <<>>, chat_data[c].inline_msg),
                              Tg("delete_message", c, <<>>, chat_data[c].inline_msg),
                              Tg("delete_message", c, <<>>, chat_data[c].initial_msg) >>
          /\ (/\ last'.op = "start"
              /\ last'.via = "command"
              /\ last'.chat = c
              /\ last'.ok
              /\ conv[c] = STATE_END
              /\ chat_data[c] = EmptyData
              /\ credentials_exists(c))
             => /\ conv'[c] = STATE_CALENDAR_SELECTION
                /\ chat_data'[c].inline_msg # 0
                /\ chat_data'[c].initial_msg # 0
                /\ chat_data'[c].calendar_name = NoName
                /\ After(c, chat_data'[c].inline_msg) =
                      Shown(PROMPT_INITIAL_MENU, initial_keyboard)
      ]_vars
\* C15 witness: finish_conversation returned in a chat with a credential:
\* the chat is in Terminal with no session fields and no keyboard message.
C15_Witness ==
    /\ last.op = "finish_conversation"
    /\ last.ok
    /\ Len(last.tg) = 3
    /\ conv[last.chat] = STATE_END
    /\ chat_data[last.chat] = EmptyData
    /\ prompt[last.chat] # <<>>
    /\ \A k \in 1..Len(prompt[last.chat]) : ~prompt[last.chat][k].exists
    /\ credentials_exists(last.chat)
\* C16 as stated (share flow result): in AwaitShareRole, with the keyboard
\* message asking the role for an accepted e-mail and the pending calendar,
\* pressing one of the three role buttons of that keyboard, with a stored
\* credential that can be loaded, asks the Gateway
\* exactly once to grant that role on the pending calendar to that e-mail,
\* clears the pending calendar, and when the handler returns the chat is in
\* SelectAction.
C16_ShareFlowResult ==
    [][ \A c \in Chats : \A e \in Emails : \A k \in 1..3 :
          LET calendar == chat_data[c].calendar_name
              shown == Message(c, chat_data[c].inline_msg)
              role == <<FREE_BUSY_READER, READER, WRITER>>[k]
          IN (/\ conv[c] = STATE_ADD_SHARE_ROLE
              /\ credentials_exists(c)
              /\ calendar # NoName
              /\ chat_data[c].inline_msg # 0
              /\ shown = Shown(PROMPT_CHOOSE_ROLE(e, calendar),
                               add_share_keyboard(calendar, e))
              /\ last'.op = "add_share_inline_role"
              /\ last'.chat = c
              /\ last'.exc # "RefreshError"
              /\ last'.arg = shown.kb[k])
             => /\ \E gwOk \in BOOLEAN :
                     last'.gw = << Called(Gw("add_acl_user", calendar, e, role), gwOk) >>
                /\ chat_data'[c].calendar_name = NoName
                /\ last'.ok => conv'[c] = STATE_ACTION_SELECTION
      ]_vars
\* C17 (Scenario A, link issuance): start handled for a chat finds a row or
\* goes on to issue a link.  Issuing it, the handler asks the Gateway for
\* the link and maps its OAuth2 state B to the chat in bot_data, which is
\* otherwise as before, so a fresh B makes it one entry larger; then, when
\* send_message returns, the one message sent is the authorization URL
\* carrying B and the chat is in Terminal.  No credential, session field
\* or keyboard message is written on the way.
C17_LinkIssuance ==
    [][ \A c \in Chats :
          /\ (last'.op = "start" /\ last'.chat = c /\ hpc = NoHandler)
                => credentials_exists(c)
          /\ (last'.op = "credentials_exists" /\ last'.chat = c)
                => /\ ~credentials_exists(c)
                   /\ hpc'.chat = c
                   /\ UNCHANGED <<bot_data, creds, chat_data, prompt, conv>>
          /\ (last'.op = "register" /\ last'.chat = c)
                => /\ \E B \in Tokens :
                        /\ bot_data' = [bot_data EXCEPT ![B] = c]
                        /\ hpc'.state = B
                        /\ bot_data[B] = NoChat =>
                              Cardinality({t \in Tokens : bot_data'[t] # NoChat})
                                  = Cardinality({t \in Tokens : bot_data[t] # NoChat}) + 1
                   /\ last'.gw = << Gw("get_authz_link", <<>>, <<>>, "") >>
                   /\ UNCHANGED <<creds, chat_data, prompt, conv>>
          /\ (last'.op = "start" /\ last'.chat = c /\ hpc.chat = c)
                => /\ UNCHANGED <<bot_data, creds, chat_data, prompt>>
                   /\ hpc' = NoHandler
                   /\ last'.ok =>
                         /\ last'.tg = << Tg("send_message", c, TG_AUTHZ_URL(hpc.state), 0) >>
                         /\ conv'[c] = STATE_END
      ]_vars
\* C17 witness: start returned after sending a link, the state it sent is
\* registered for the chat, and the chat is in Terminal without credential.
C17_Witness ==
    /\ last.op = "start"
    /\ last.ok
    /\ hpc = NoHandler
    /\ ~credentials_exists(last.chat)
    /\ conv[last.chat] = STATE_END
    /\ \E B \in Tokens :
          /\ last.tg = << Tg("send_message", last.chat, TG_AUTHZ_URL(B), 0) >>
          /\ bot_data[B] = last.chat
          /\ \A t \in Tokens \ {B} : bot_data[t] = NoChat
\* C18 (direct commands are outside the state machine): handling one of
\* help, show_calendars, show_share, add_share, delete_share, revoke_authz,
\* in any conversation state and whatever its outcome, leaves the
\* conversation state and the three session fields of every chat unchanged.
C18_CommandsOutside ==
    [][ (/\ last'.via = "command"
         /\ last'.op \in {"help", "show_calendars", "show_share", "add_share",
                          "delete_share", "revoke_authz"})
        => /\ conv' = conv
           /\ chat_data' = chat_data
      ]_vars
\* C18 witness: a direct command has called the Gateway and replied while
\* the chat is in the middle of the share flow with all three fields set.
C18_Witness ==
    /\ last.op = "add_share"
    /\ last.ok
    /\ last.gw # <<>>
    /\ conv[last.chat] = STATE_ADD_SHARE_ROLE
    /\ chat_data[last.chat].initial_msg # 0
    /\ chat_data[last.chat].inline_msg # 0
    /\ chat_data[last.chat].calendar_name # NoName
\* C19 as stated (direct commands always answer): unless Telegram itself
\* refuses the message, a direct command ends with exactly one message sent
\* to the chat, whether or not the chat has a credential.
C19_CommandsAnswer ==
    [][ (/\ last'.via = "command"
         /\ last'.op \in {"help", "show_calendars", "show_share", "add_share",
                          "delete_share", "revoke_authz"}
         /\ last'.exc # "TelegramError")
        => /\ last'.ok
           /\ Len(last'.tg) = 1
           /\ last'.tg[1].m = "send_message"
           /\ last'.tg[1].chat = last'.chat
      ]_vars
\* C20 (Scenario D, validation before action): add_share calls the Gateway
\* only with three arguments, a valid e-mail and a grantable role; with a
\* wrong count it replies the count message, else with an invalid e-mail
\* the e-mail message, else with an unknown role the role message, and in
\* these three cases it makes no Gateway call and changes nothing but the
\* record of the reply.
C20_ValidationBeforeAction ==
    [][ (last'.op = "add_share") =>
          LET args == last'.arg
              c == last'.chat
              valid == /\ Len(args) = 3
                       /\ validate_email(args[2])
                       /\ Head(args[3]) \in {FREE_BUSY_READER, READER, WRITER}
              message == IF Len(args) # 3 THEN TG_INVALID_ARG_NUM(3)
                         ELSE IF ~validate_email(args[2]) THEN TG_EMAIL_INVALID
                         ELSE TG_ROLE_INVALID
          IN /\ last'.gw # <<>> => valid
             /\ ~valid =>
                  /\ last'.gw = <<>>
                  /\ UNCHANGED <<creds, bot_data, conv, chat_data, prompt, queue>>
                  /\ last'.ok => last'.tg = << Tg("send_message", c, message, 0) >>
                  /\ ~last'.ok => last'.exc = "TelegramError" /\ last'.tg = <<>>
      ]_vars
\* C20 witness: add_share with three arguments, a text that is no e-mail
\* and a grantable role has answered with the e-mail message.
C20_Witness ==
    /\ last.op = "add_share"
    /\ Len(last.arg) = 3
    /\ ~validate_email(last.arg[2])
    /\ Head(last.arg[3]) = READER
    /\ last.gw = <<>>
    /\ last.tg = << Tg("send_message", last.chat, TG_EMAIL_INVALID, 0) >>
C22_DialogueProviderError ==
    [][ \A c \in Chats :
          (/\ last'.op \in {"show_share_inline", "add_share_inline_role",
                            "delete_share_inline_email"}
           /\ last'.chat = c
           /\ last'.gw # <<>>
           /\ last'.gw[1].raised)
          => /\ conv'[c] = conv[c]
             /\ chat_data'[c] = chat_data[c]
             /\ \E i \in 1..Len(last'.tg) :
                   last'.tg[i].m \in {"send_message", "edit_message_text"}
      ]_vars
\* C23 as stated (callback forwarding): a request to the callback endpoint
\* puts exactly one Denied{state} on the channel when the error parameter
\* is present, exactly one Granted{state, credentials} when the grant
\* exchange succeeds, nothing when the exchange fails, and in all three
\* cases the response is the closing page.
C23_CallbackForwarding ==
    [][ (last'.op = "oauth2callback") =>
          LET state == last'.arg[1]
              error == Len(last'.arg) = 2
          IN /\ last'.tg = << Tg("response", NoChat, <<"exit_js_script">>, 0) >>
             /\ IF error
                THEN /\ sent' = Append(sent, Denied(state))
                     /\ queue' = [queue EXCEPT !["web"] = Append(@, Denied(state))]
                ELSE IF last'.gw[1].raised
                     THEN sent' = sent /\ queue' = queue
                     ELSE \E b \in Blobs :
                             /\ sent' = Append(sent, Granted(state, b))
                             /\ queue' = [queue EXCEPT !["web"] =
                                                Append(@, Granted(state, b))]
      ]_vars
\* C24 as stated (unrecognized channel messages): when webauth_callback gets
\* a message that is none of Granted{state, credentials}, Denied{state} and
\* Shutdown, it drops it and waits for the next one, and neither bot_data
\* nor the credential table changes.
C24_UnrecognizedDropped ==
    [][ (/\ dpc = "get"
         /\ last'.op = "get"
         /\ Len(processed') = Len(processed) + 1
         /\ processed'[Len(processed')] \in ForeignMessages)
        => /\ dpc' = "get"
           /\ bot_data' = bot_data
           /\ creds' = creds
      ]_vars
\* C25 as stated (pending calendar only while an e-mail is awaited): in
\* every reachable state a chat whose chat_data holds the pending calendar
\* name is in AwaitShareEmail or AwaitDeleteEmail.  Stated for the states
\* a handler of that chat leaves when it returns.
C25_PendingOnlyAwaitingEmail ==
    \A c \in Chats :
        (/\ last.chat = c
         /\ last.via \in {"command", "button", "text"}
         /\ last.ok
         /\ chat_data[c].calendar_name # NoName)
        => conv[c] \in {STATE_ADD_SHARE, STATE_DELETE_SHARE}
\* C26 (bot_data under concurrency): the store written by the update
\* workers (start, line 176) and popped by the webauth_callback thread behaves, under
\* every interleaving of their steps, as if the two never overlapped: a
\* lookup finds the state exactly when a registration of it is pending, and
\* then removes it and nothing else; a registration removes no other
\* state; and no state is consumed more often than it was registered.
C26_StoreUnderConcurrency ==
    [][ /\ PopStep =>
            LET t == cur.state IN
            /\ hist[t].by # {} =>
                  /\ last'.op = "consume"
                  /\ last'.chat \in hist[t].by
                  /\ bot_data'[t] = NoChat
            /\ hist[t].by = {} =>
                  /\ last'.op = "not_found"
                  /\ bot_data'[t] = NoChat
            /\ \A u \in Tokens \ {t} : bot_data'[u] = bot_data[u]
        /\ last'.op = "register" =>
            \A u \in Tokens : bot_data[u] # NoChat => bot_data'[u] # NoChat
        /\ \A u \in Tokens : hist'[u].hit <= hist'[u].reg
      ]_vars
\* C26 witness: a state was consumed while the state registered by the
\* other chat is still pending.
C26_Witness ==
    /\ last.op = "consume"
    /\ \E t \in Tokens, u \in Tokens :
          /\ t # u
          /\ last.arg = <<t>>
          /\ hist[t].hit = 1
          /\ bot_data[t] = NoChat
          /\ bot_data[u] # NoChat
          /\ bot_data[u] # last.chat
\* C27 (life of a credential row): the table holds one entry per chat; the
\* row of a chat appears only in the create step of webauth_callback for a
\* message with credentials, and holds those credentials; that step changes
\* nothing when the chat already has a row; a row changes in place only by
\* a token refresh in a handler of that chat; and it disappears only in
\* revoke_authz or revoke_authz_inline of that chat.
C27_CredentialLifecycle ==
    [][ /\ DOMAIN creds' = Chats
        /\ (CreateStep /\ creds[dchat] # NoCred) => creds' = creds
        /\ \A c \in Chats :
             /\ (creds[c] = NoCred /\ creds'[c] # NoCred) =>
                   /\ CreateStep
                   /\ dchat = c
                   /\ cur.credentials # NoCred
                   /\ creds'[c] = cur.credentials
             /\ (creds[c] # NoCred /\ creds'[c] = NoCred) =>
                   /\ last'.op \in {"revoke_authz", "revoke_authz_inline"}
                   /\ last'.chat = c
             /\ (creds[c] # NoCred /\ creds'[c] # NoCred /\ creds'[c] # creds[c]) =>
                   /\ creds'[c] = [creds[c] EXCEPT !.gen = @ + 1]
                   /\ last'.chat = c
                   /\ last'.gw # <<>>
      ]_vars
\* C27 witness: the create step ran for a chat whose row, stored by an
\* earlier handoff and refreshed since, was left as it was.
C27_Witness ==
    /\ last.op = "create"
    /\ last.ok
    /\ creds[last.chat] # NoCred
    /\ creds[last.chat].gen = 1
    /\ \E t \in Tokens : hist[t].write = 1 /\ \E u \in Tokens \ {t} : hist[u].write = 1
\* C28 as stated (redundant edit): when a handler renders a keyboard
\* message with the text and keyboard it already shows, the edit counts as
\* done: the handler returns and the chat is in the state the handler
\* leads to.  Stated for the calendar button pressed on a message that
\* shows the action menu of that calendar, Telegram refusing nothing else.
C28_RedundantEdit ==
    [][ \A c \in Chats :
          LET q == Head(inbox[c])
              parts == Split(q.data)
              calendar == parts[2]
          IN (/\ HandledQuery(c)
              /\ last'.op = "select_calendar_inline"
              /\ last'.exc # "TelegramError"
              /\ Len(parts) = 2
              /\ Message(c, q.msg) = Shown(PROMPT_CHOOSE_ACTION(calendar),
                                           calendar_keyboard(calendar)))
             => /\ last'.ok
                /\ conv'[c] = STATE_ACTION_SELECTION
      ]_vars
\* C29: while the conversation of a chat is in a non-terminal state, the
\* chat has a credential row, whatever direct commands were typed in
\* between; the steps looked at are those whose handler returned.
C29_CredentialWhileActive ==
    \A c \in Chats :
        (/\ last.chat = c
         /\ last.via \in {"command", "button", "text"}
         /\ last.ok
         /\ conv[c] \in ActiveStates) => credentials_exists(c)
\* C30: with every Telegram and Gateway call succeeding, in a non-terminal
\* state the session holds the id of the initial message and of the
\* keyboard message, and while an e-mail or a role is awaited also the
\* pending calendar name.
C30_SessionFieldsPresent ==
    \A c \in Chats :
        conv[c] \in ActiveStates =>
            /\ chat_data[c].initial_msg # 0
            /\ chat_data[c].inline_msg # 0
            /\ conv[c] \in {STATE_ADD_SHARE, STATE_ADD_SHARE_ROLE, STATE_DELETE_SHARE}
                 => chat_data[c].calendar_name # NoName
\* C31: whenever the webauth_callback thread sends TG_AUTH_COMPLETE to a
\* chat (line 700), that chat has a credential row at that moment, also
\* when the chat's own commands run between lines 699 and 700.
C31_NotifyAfterPersist ==
    [][ (NotifyStep /\ last'.op = "notify" /\ last'.ok) => credentials_exists(dchat) ]_vars
\* C32: for every handler name n and argument a (a calendar name, or an
\* e-mail the gate accepted) whose payload n#a is on the keyboard a handler
\* has just shown, splitting the payload on the delimiter gives back
\* exactly n and a, and in the state the handler returned the payload is
\* routed to the handler named n.
C32_PayloadRoundTrip ==
    [][ \A c \in Chats : \A k \in 1..Len(prompt'[c]) :
          (/\ last'.chat = c
           /\ last'.ok
           /\ last'.via \in {"command", "button", "text"}
           /\ Message(c, 2 * k) # prompt'[c][k]
           /\ prompt'[c][k].exists
           /\ conv'[c] \in ActiveStates) =>
              \A n \in ArgHandlers, a \in Args :
                  (\E i \in 1..Len(prompt'[c][k].kb) : prompt'[c][k].kb[i] = Payload(n, a)) =>
                      /\ Split(Payload(n, a)) = <<n, a>>
                      /\ Route(conv'[c], Payload(n, a)) = n
      ]_vars

====
